---- MODULE Spec2Model ----
(***************************************************************************)
(* A model of the IR linker of source/slang/slang-ir-link.cpp: the symbol  *)
(* table keyed by mangled name, the choice of the best candidate for the   *)
(* active target, and the memoized recursive cloning of the instruction    *)
(* graph of the source modules into one destination module.                *)
(*                                                                         *)
(* Instructions are records held in one sequence `insts' (the heap); an    *)
(* instruction is named by its index (its address) and 0 is nullptr.  The  *)
(* source modules come first; the destination module starts at `module',   *)
(* its IRModuleInst, and every instruction the linker creates is appended. *)
(* Every module has an IRModuleInst (op "Module") whose children are its   *)
(* global instructions.  The decorations the linker inspects (linkage with *)
(* its mangled name, export, target, keep-alive, layout) are fields of the *)
(* record; they are copied where the code clones the decorations.  Any     *)
(* other decoration is an ordinary child instruction.                      *)
(*                                                                         *)
(* The C++ recursion is an explicit call stack: a frame holds a function,  *)
(* its program point and its locals, and `ret' holds the value the last    *)
(* finished call returned.                                                 *)
(***************************************************************************)
EXTENDS Integers, Sequences, FiniteSets, TLC

VARIABLES
    insts,      \* the heap of instructions: source modules, then destination
    progModule, \* the IRModuleInst of program->getOrCreateIRModule()
    deps,       \* the IRModuleInsts of program->getModuleDependencies(), in order
    target,     \* IRSharedSpecContext::target, as getTargetName() spells it
    entryName,  \* getMangledName(entryPoint->getFuncDeclRef())
    debug,      \* the build defines _DEBUG
    entryPointLayout, \* what linkIR reads of the entry point's layout
    programLayout, \* what linkIR reads of the layouts of the global scopes
    module,     \* IRSharedSpecContext::module: the destination IRModuleInst
    symbols,    \* IRSharedSpecContext::symbols: mangled name -> candidate list
    symOrder,   \* the keys of `symbols' in the order they were added
    globalVarLayouts, \* IRSpecContextBase::globalVarLayouts: mangled name -> layout
    envs,       \* the IRSpecEnv frames: [parent, clonedValues]
    curEnv,     \* IRSpecContextBase::env (an index into envs)
    stack,      \* the call stack, top last
    ret,        \* the value returned by the call that finished last
    status,     \* "running", "done", "returned" or the fatal error that ended it
    entryPoint, \* LinkedIR::entryPoint (0 until linkIR returns one)
    m_irModule, \* Program::m_irModule (0 while no IR module was generated)
    threads,    \* the link operations that run on threads of their own
    built,      \* history: the symbol table as the builder left it
    rets,       \* history: original -> the values cloneValue returned for it
    first       \* history: the LinkedIR of the link operation before this one

vars == << insts, progModule, deps, target, entryName, debug, entryPointLayout,
           programLayout, globalVarLayouts, module, symbols, symOrder, envs,
           curEnv, stack, ret, status,
           entryPoint, built, rets, first, m_irModule, threads >>

\* What a link operation is given, and what was linked before it; no step
\* of a link operation writes it.
input == << progModule, deps, target, entryName, debug, entryPointLayout,
            programLayout, module, first, m_irModule, threads >>

(***************************************************************************)
(* Sequences                                                               *)
(***************************************************************************)
Last(s) == s[Len(s)]

Front(s) == SubSeq(s, 1, Len(s) - 1)

Range(s) == { s[k] : k \in DOMAIN s }

RECURSIVE Without(_, _)
Without(s, x) ==
    IF s = << >> THEN << >>
    ELSE IF Head(s) = x THEN Without(Tail(s), x)
    ELSE << Head(s) >> \o Without(Tail(s), x)

(***************************************************************************)
(* Instructions                                                            *)
(***************************************************************************)
NoName == ""

\* What an IRLayoutDecoration refers to: the layout of the entry point, of
\* one variable (a field of a parameter struct, with its offset), or of a
\* tagged union type; NoLayout when there is no such decoration.
Layout(kind, field, offset) == [ kind |-> kind, field |-> field, offset |-> offset ]

NoLayout == Layout("none", 0, 0)

\* An instruction: op, full type, operands, children, parent, and the
\* decorations the linker reads.  `orig' is the source instruction a
\* destination instruction was cloned from (0 in the source modules).
Inst(op, type, args, kids, parent, link, export, targets) ==
    [ op |-> op, type |-> type, args |-> args, kids |-> kids,
      parent |-> parent, link |-> link, export |-> export,
      targets |-> targets, keepAlive |-> 0, bindExistentialSlots |-> FALSE,
      layout |-> NoLayout, orig |-> 0 ]

\* An instruction without decorations.
Plain(op, type, args, kids, parent) ==
    Inst(op, type, args, kids, parent, NoName, FALSE, << >>)

\* originalModule->getGlobalInsts()
GetGlobalInsts(h, m) == h[m].kids

\* inst->findDecoration<IRLinkageDecoration>() != nullptr
HasLinkage(h, v) == h[v].link # NoName

\* inst->getDataType(): the full type without its rate.
getDataType(h, inst) ==
    LET type == h[inst].type IN
    IF type # 0 /\ h[type].op = "RateQualifiedType" /\ Len(h[type].args) = 2
    THEN h[type].args[2] ELSE type

\* inst->getRate(): the rate of a rate-qualified full type, or nullptr.
getRate(h, inst) ==
    LET type == h[inst].type IN
    IF type # 0 /\ h[type].op = "RateQualifiedType" /\ Len(h[type].args) = 2
    THEN h[type].args[1] ELSE 0

\* ptrType->getValueType(): the first operand.
getValueType(h, ptrType) == h[ptrType].args[1]

\* The instructions of the source modules and of the destination module.
SrcIds == { k \in DOMAIN insts : k < module }

DstIds == { k \in DOMAIN insts : k >= module }

\* The destination instructions cloned from the source instruction `o'.
ClonesOf(o) == { k \in DstIds : insts[k].orig = o }

(***************************************************************************)
(* The variant selector                                                    *)
(***************************************************************************)
\* The while loop of getTargetSpecialiationLevel: a generic stands for the
\* value its first block returns.
\* A faulty variant of ReturnedValue that does not look through a generic.
wrapperItself(s, v) == v

RECURSIVE ReturnedValue(_, _)
ReturnedValue(s, v) ==
    IF s[v].op # "Generic" \/ s[v].kids = << >> THEN v
    ELSE LET firstBlock == Head(s[v].kids) IN
         IF s[firstBlock].kids = << >> THEN v
         ELSE LET returnInst == Last(s[firstBlock].kids) IN
              IF s[returnInst].op # "ReturnVal" THEN v
              ELSE ReturnedValue(s, Head(s[returnInst].args))

\* enum class TargetSpecializationLevel:
\* specializedForOtherTarget = 0, notSpecialized = 1, specializedForTarget = 2
getTargetSpecialiationLevel(s, inVal, targetName) ==
    LET val == ReturnedValue(s, inVal) IN
    IF \E k \in DOMAIN s[val].targets : s[val].targets[k] = targetName THEN 2
    ELSE IF s[val].targets # << >> THEN 0
    ELSE 1

\* isDefinition(val): the candidate has content of its own.
isDefinition(s, val) == s[val].kids # << >>

\* newVal->findDecoration<IRExportDecoration>() != nullptr
IsExport(s, val) == s[val].export

\* A faulty variant of isBetterForTarget that forgets the export test.
isBetterIgnoringExport(s, t, newVal, oldVal) ==
    LET newLevel == getTargetSpecialiationLevel(s, newVal, t)
        oldLevel == getTargetSpecialiationLevel(s, oldVal, t)
    IN  IF newLevel # oldLevel THEN newLevel > oldLevel
        ELSE IF isDefinition(s, newVal) # isDefinition(s, oldVal)
             THEN isDefinition(s, newVal)
        ELSE FALSE

isBetterForTarget(s, t, newVal, oldVal) ==
    LET newLevel == getTargetSpecialiationLevel(s, newVal, t)
        oldLevel == getTargetSpecialiationLevel(s, oldVal, t)
    IN  IF newLevel # oldLevel THEN newLevel > oldLevel
        ELSE IF IsExport(s, newVal) # IsExport(s, oldVal) THEN IsExport(s, newVal)
        ELSE IF isDefinition(s, newVal) # isDefinition(s, oldVal)
             THEN isDefinition(s, newVal)
        ELSE FALSE

\* The loop of cloneGlobalValueWithLinkage over sym->nextWithSameName.
RECURSIVE ScanBest(_, _, _, _)
ScanBest(s, t, rest, bestVal) ==
    IF rest = << >> THEN bestVal
    ELSE ScanBest(s, t, Tail(rest),
                  IF isBetterForTarget(s, t, Head(rest), bestVal)
                  THEN Head(rest) ELSE bestVal)

\* bestVal of cloneGlobalValueWithLinkage for the candidate list `cands'.
BestCandidate(s, t, cands) == ScanBest(s, t, Tail(cands), Head(cands))

(***************************************************************************)
(* The symbol table                                                        *)
(***************************************************************************)
\* A faulty variant of insertGlobalValueSymbol that does not chain the
\* symbols of one name: a later symbol takes the place of the earlier ones.
replaceGlobalValueSymbol(syms, s, gv) ==
    IF ~HasLinkage(s, gv) THEN syms
    ELSE LET mangledName == s[gv].link IN
         IF mangledName \in DOMAIN syms
         THEN [syms EXCEPT ![mangledName] = << gv >>]
         ELSE syms @@ (mangledName :> << gv >>)

\* A candidate list is the sequence sym, sym->nextWithSameName, ...
\* insertGlobalValueSymbol: a first symbol of a name is added to the
\* dictionary; a later one is linked in right behind the first.
insertGlobalValueSymbol(syms, s, gv) ==
    IF ~HasLinkage(s, gv) THEN syms
    ELSE LET mangledName == s[gv].link IN
         IF mangledName \in DOMAIN syms
         THEN [syms EXCEPT ![mangledName] =
                  << Head(@) >> \o << gv >> \o Tail(@)]
         ELSE syms @@ (mangledName :> << gv >>)

(***************************************************************************)
(* The specialization environment                                          *)
(***************************************************************************)
\* findClonedValue: the innermost frame of the chain that has an entry for
\* the original decides; 0 (nullptr) when no frame has one.
\* A faulty variant of findClonedValue that looks into the current frame
\* only.
findInCurrentFrame(es, e, originalValue) ==
    IF e # 0 /\ originalValue \in DOMAIN es[e].clonedValues
    THEN es[e].clonedValues[originalValue]
    ELSE 0

RECURSIVE findClonedValue(_, _, _)
findClonedValue(es, e, originalValue) ==
    IF e = 0 THEN 0
    ELSE IF originalValue \in DOMAIN es[e].clonedValues
         THEN es[e].clonedValues[originalValue]
         ELSE findClonedValue(es, es[e].parent, originalValue)

\* registerClonedValue(context, clonedValue, originalValue): the entry of
\* the current frame is set, whether or not it was there.
registerClonedValue(es, e, clonedValue, originalValue) ==
    IF originalValue = 0 THEN es
    ELSE [es EXCEPT ![e].clonedValues =
             IF originalValue \in DOMAIN @
             THEN [@ EXCEPT ![originalValue] = clonedValue]
             ELSE @ @@ (originalValue :> clonedValue)]

\* IROriginalValuesForClone: originalVal and the symbol list from sym on.
OriginalValues(originalVal, sym) == [ originalVal |-> originalVal, sym |-> sym ]

RECURSIVE RegisterSyms(_, _, _, _)
RegisterSyms(es, e, clonedValue, sym) ==
    IF sym = << >> THEN es
    ELSE RegisterSyms(registerClonedValue(es, e, clonedValue, Head(sym)),
                      e, clonedValue, Tail(sym))

\* A faulty variant of registerClonedValues that forgets the symbol list.
registerOriginalOnly(es, e, clonedValue, originalValues) ==
    registerClonedValue(es, e, clonedValue, originalValues.originalVal)

\* registerClonedValue(context, clonedValue, originalValues)
registerClonedValues(es, e, clonedValue, originalValues) ==
    RegisterSyms(registerClonedValue(es, e, clonedValue, originalValues.originalVal),
                 e, clonedValue, originalValues.sym)

(***************************************************************************)
(* The builder: creating and placing instructions                          *)
(***************************************************************************)
RECURSIVE Nulls(_)
Nulls(n) == IF n = 0 THEN << >> ELSE << 0 >> \o Nulls(n - 1)

\* A new instruction, not yet in any parent (createBlock,
\* createIntrinsicInst); its address is Len(h) + 1.
createInst(h, op, type, argCount, original) ==
    Append(h, [Plain(op, type, Nulls(argCount), << >>, 0) EXCEPT !.orig = original])

\* inst->insertAtEnd(parent), builder->addInst(inst), func->addBlock(block)
insertAtEnd(h, inst, parent) ==
    [h EXCEPT ![inst].parent = parent, ![parent].kids = Append(@, inst)]

\* inst->moveToEnd()
moveToEnd(h, inst) ==
    LET parent == h[inst].parent IN
    IF parent = 0 THEN h
    ELSE [h EXCEPT ![parent].kids = Append(Without(@, inst), inst)]

\* addGlobalValue: a global value goes into the nearest enclosing module or
\* block of a generic above the builder's insertion point `into'.
RECURSIVE GlobalValueParent(_, _, _)
GlobalValueParent(h, into, mod) ==
    IF into = 0 THEN mod
    ELSE IF h[into].op = "Module" THEN into
    ELSE IF /\ h[into].op = "Block"
            /\ h[into].parent # 0
            /\ h[h[into].parent].op = "Generic" THEN into
    ELSE GlobalValueParent(h, h[into].parent, mod)

\* builder->createFunc(), createGlobalVar(type), createStructType(), ...:
\* the new global value is created and placed by addGlobalValue.
createGlobalValue(h, op, type, into, mod, original) ==
    insertAtEnd(createInst(h, op, type, 0, original), Len(h) + 1,
                GlobalValueParent(h, into, mod))

\* addHoistableInst: the global scope, unless an operand lives in a block.
HoistParent(h, inst, mod) ==
    LET low == { k \in DOMAIN h[inst].args :
                    /\ h[inst].args[k] > 0
                    /\ h[h[inst].args[k]].parent # 0
                    /\ h[h[h[inst].args[k]].parent].op = "Block" }
    IN  IF low = {} THEN mod
        ELSE h[h[inst].args[CHOOSE k \in low : \A l \in low : l <= k]].parent

\* builder->getPtrType(valueType), getRateQualifiedType(rate, type): a type
\* with the operands is created and hoisted; its address is Len(h) + 1.
createTypeInst(h, op, operands, mod) ==
    LET made == Append(h, Plain(op, 0, operands, << >>, 0)) IN
    insertAtEnd(made, Len(h) + 1, HoistParent(made, Len(h) + 1, mod))

\* builder->createGlobalVar(valueType): the pointer type at Len(h) + 1, and
\* the variable of that type at Len(h) + 2.
createGlobalVar(h, valueType, into, mod, original) ==
    createGlobalValue(createTypeInst(h, "PtrType", << valueType >>, mod),
                      "GlobalVar", Len(h) + 1, into, mod, original)

\* builder->getBoolValue, getIntValue, getFloatValue, getStringValue and
\* getPtrValue with the value of the literal originalValue: the constant of
\* the builder for that value.  It is no instruction the linker creates
\* and it gets no entry in the memo; it is named by a negative number.
getConstantValue(originalValue) == 0 - originalValue

\* A faulty variant of cloneDecorations that moves the linkage decoration
\* of the original to the clone.
moveDecorations(h, clonedValue, originalValue) ==
    [h EXCEPT ![clonedValue].link = h[originalValue].link,
              ![clonedValue].export = h[originalValue].export,
              ![clonedValue].targets = h[originalValue].targets,
              ![clonedValue].keepAlive = h[originalValue].keepAlive,
              ![clonedValue].bindExistentialSlots =
                  h[originalValue].bindExistentialSlots,
              ![clonedValue].layout = h[originalValue].layout,
              ![originalValue].link = NoName]

\* cloneDecorations: the clone receives the decorations of the original.
cloneDecorations(h, clonedValue, originalValue) ==
    [h EXCEPT ![clonedValue].link = h[originalValue].link,
              ![clonedValue].export = h[originalValue].export,
              ![clonedValue].targets = h[originalValue].targets,
              ![clonedValue].keepAlive = h[originalValue].keepAlive,
              ![clonedValue].bindExistentialSlots =
                  h[originalValue].bindExistentialSlots,
              ![clonedValue].layout = h[originalValue].layout]

(***************************************************************************)
(* The call stack                                                          *)
(***************************************************************************)
NoOriginals == OriginalValues(0, << >>)

\* A frame: the function, its program point, the original it works on, its
\* clone, the builder's insertion point, the originals to register, whether
\* to register them (registerValue), two loop counters, and how far the
\* cloning had come when the frame made the call it waits for.
Frame(fn, o, b, ov) ==
    [ fn |-> fn, pc |-> "start", o |-> o, c |-> 0, b |-> b, ov |-> ov,
      reg |-> TRUE, i |-> 0, j |-> 0, m |-> 0 ]

Top == Last(stack)

At(fn) == status = "running" /\ stack # << >> /\ Top.fn = fn

SetTop(st, f) == [st EXCEPT ![Len(st)] = f]

\* The top frame becomes `f' and calls `callee'.
Call(st, f, callee) == Append(SetTop(st, f), callee)

\* The number of entries of the memo, over all frames.
RECURSIVE MemoSize(_, _)
MemoSize(es, e) ==
    IF e = 0 THEN 0
    ELSE Cardinality(DOMAIN es[e].clonedValues) + MemoSize(es, e - 1)

\* The mangled names that children of the destination module carry, each
\* counted once more when two children carry it: what checkIRDuplicate
\* looks at.
NamesInModule(h) ==
    LET linked == { k \in Range(h[module].kids) : HasLinkage(h, k) }
        names == { h[k].link : k \in linked }
    IN  Cardinality(names)
        + Cardinality({ n \in names :
                          Cardinality({ k \in linked : h[k].link = n }) > 1 })

\* How far the cloning has come: the course of a clone function is decided
\* by the source modules, by the originals that have an entry in the memo
\* and, in a build with _DEBUG, by the names checkIRDuplicate finds.
\* Entries and names are added and never removed.
Progress(h, es) ==
    MemoSize(es, Len(es)) + (IF debug THEN NamesInModule(h) ELSE 0)

\* The call the top frame of `st' has received from the frame below it
\* starts a recursion without end, which overflows the machine stack: a
\* lower frame of the same function, with the same arguments and at the
\* same program point, waits for the same call, and the cloning has come
\* no further since that frame made it.
Reenters(h, es, st) ==
    /\ Len(st) > Len(stack)
    /\ LET caller == st[Len(st) - 1] IN
       \E k \in 1 .. Len(st) - 2 :
           /\ st[k].fn = caller.fn
           /\ st[k].o = caller.o
           /\ st[k].ov = caller.ov
           /\ st[k].reg = caller.reg
           /\ st[k].pc = caller.pc
           /\ st[k].i = caller.i
           /\ st[k].j = caller.j
           /\ st[k].m = Progress(h, es)

\* A frame that makes a call notes how far the cloning has come.
Noted(h, es, st) ==
    IF Len(st) > Len(stack)
    THEN [st EXCEPT ![Len(st) - 1].m = Progress(h, es)]
    ELSE st

\* SLANG_UNEXPECTED(...) after the instructions have become `h': the link
\* operation is abandoned.
FatalAfter(h, err) ==
    /\ status' = err
    /\ stack' = << >>
    /\ insts' = h
    /\ UNCHANGED << input, symbols, symOrder, envs, curEnv, ret,
                    entryPoint, built, globalVarLayouts, rets >>

\* SLANG_UNEXPECTED(...): the link operation is abandoned.
Fatal(err) == FatalAfter(insts, err)

\* One step of the running link operation.
Step(h, es, st, r) ==
    IF Reenters(h, es, st) THEN Fatal("stack overflow")
    ELSE /\ insts' = h
         /\ envs' = es
         /\ stack' = Noted(h, es, st)
         /\ ret' = r
         /\ UNCHANGED << input, symbols, symOrder, curEnv, status, entryPoint,
                         built, globalVarLayouts, rets >>

\* The top frame returns `r' to its caller.
Return(h, es, r) == Step(h, es, Front(stack), r)

\* cloneType(context, originalValue->getFullType()) from a frame that has
\* not registered its clone.
AwaitType(f, pc) ==
    Step(insts, envs,
         Call(stack, [f EXCEPT !.pc = pc],
              Frame("cloneValue", insts[f.o].type, f.b, NoOriginals)),
         ret)

(***************************************************************************)
(* linkIR and the symbol table builder                                     *)
(***************************************************************************)
\* What linkIR reads of a ProgramLayout: the entries of mapVarToLayout of
\* the global scope and of the scope of the entry point group, each a
\* mangled name (NoName for a null key) with a layout, in the order the
\* dictionary yields them, and the layout of the parameters of the group.
ProgramLayout(globalScope, groupScope, groupOffset) ==
    [ globalScope |-> globalScope,
      groupScope |-> groupScope,
      parametersLayout |-> Layout("var", 0, groupOffset) ]

\* An entry of mapVarToLayout.
VarEntry(name, field, offset) ==
    [ name |-> name, layout |-> Layout("var", field, offset) ]

\* groupVarLayout->getAbsoluteLayout(parametersLayout): the layout, moved
\* by the offset of the parameters of the enclosing group.
getAbsoluteLayout(varLayout, parametersLayout) ==
    Layout("var", varLayout.field, varLayout.offset + parametersLayout.offset)

\* A faulty variant of AddIfNotExists that replaces the value of a key
\* that exists.
addOrReplace(dict, key, value) ==
    [ k \in DOMAIN dict \cup { key } |-> IF k = key THEN value ELSE dict[k] ]

\* Dictionary::AddIfNotExists(key, value)
AddIfNotExists(dict, key, value) ==
    IF key \in DOMAIN dict THEN dict
    ELSE [ k \in DOMAIN dict \cup { key } |-> IF k = key THEN value ELSE dict[k] ]

\* The loop of linkIR over the global scope.
RECURSIVE AddGlobalScopeLayouts(_, _)
AddGlobalScopeLayouts(dict, entries) ==
    IF entries = << >> THEN dict
    ELSE AddGlobalScopeLayouts(
             AddIfNotExists(dict, Head(entries).name, Head(entries).layout),
             Tail(entries))

\* The loop of linkIR over the scope of the entry point group: an entry
\* without a key is skipped, the layouts are made absolute.
RECURSIVE AddGroupScopeLayouts(_, _, _)
AddGroupScopeLayouts(dict, entries, parametersLayout) ==
    IF entries = << >> THEN dict
    ELSE AddGroupScopeLayouts(
             IF Head(entries).name = NoName THEN dict
             ELSE AddIfNotExists(dict, Head(entries).name,
                                 getAbsoluteLayout(Head(entries).layout,
                                                   parametersLayout)),
             Tail(entries), parametersLayout)

\* context->globalVarLayouts as linkIR fills it.
BuildGlobalVarLayouts(pl) ==
    AddGroupScopeLayouts(AddGlobalScopeLayouts(<< >>, pl.globalScope),
                         pl.groupScope, pl.parametersLayout)

\* insertGlobalValueSymbols(sharedContext, originalModule): one global
\* instruction of the module per step; frame.o is the module (0: none).
InsertGlobalValueSymbols ==
    /\ At("insertGlobalValueSymbols")
    /\ LET f == Top
           globals == IF f.o = 0 THEN << >> ELSE GetGlobalInsts(insts, f.o)
       IN  IF f.i >= Len(globals)
           THEN Return(insts, envs, 0)
           ELSE LET gv == globals[f.i + 1]
                    syms == insertGlobalValueSymbol(symbols, insts, gv)
                IN  /\ symbols' = syms
                    /\ symOrder' = IF DOMAIN syms = DOMAIN symbols THEN symOrder
                                   ELSE Append(symOrder, insts[gv].link)
                    /\ stack' = IF f.i + 1 = Len(globals) THEN Front(stack)
                                ELSE SetTop(stack, [f EXCEPT !.i = f.i + 1])
                    /\ UNCHANGED << insts, input, envs, curEnv, ret, status,
                                    entryPoint, built, globalVarLayouts, rets >>

\* The first of the positions `hits' after `from', or 0: the loops of
\* linkIR that skip what does not concern them.
NextAt(hits, from) ==
    LET later == { k \in hits : k > from }
    IN  IF later = {} THEN 0 ELSE CHOOSE k \in later : \A l \in later : k <= l

\* A faulty variant of IsWitnessTableSymbol that passes only the witness
\* tables that have a clone already.
IsClonedWitnessTableSymbol(name) ==
    /\ insts[Head(symbols[name])].op = "WitnessTable"
    /\ findClonedValue(envs, curEnv, Head(symbols[name])) # 0

IsWitnessTableSymbol(name) == insts[Head(symbols[name])].op = "WitnessTable"

IsBindGlobalGenericParam(inst) == insts[inst].op = "BindGlobalGenericParam"

\* A faulty variant of IsBindGlobalExistentialSlots that passes only the
\* instructions the entry point has reached.
IsReachedBindGlobalExistentialSlots(inst) ==
    /\ insts[inst].op = "BindGlobalExistentialSlots"
    /\ findClonedValue(envs, curEnv, inst) # 0

IsBindGlobalExistentialSlots(inst) == insts[inst].op = "BindGlobalExistentialSlots"

\* linkIR.  Program points: "start" (the symbol table is built from the
\* program module and then from each dependency), "witness" (every symbol
\* whose first candidate is a witness table is cloned), "entry",
\* "bindParams" and "bindSlots" (the two sweeps over the program module)
\* and "taggedUnions" (the layouts of the tagged union types).
LinkIR ==
    /\ At("linkIR")
    /\ LET f == Top
           modules == << progModule >> \o deps
       IN
       CASE f.pc = "start" ->
            IF f.i < Len(modules)
            THEN Step(insts, envs,
                      Call(stack, [f EXCEPT !.i = f.i + 1],
                           Frame("insertGlobalValueSymbols", modules[f.i + 1],
                                 module, NoOriginals)),
                      ret)
            ELSE /\ built' = symbols
                 /\ globalVarLayouts' = BuildGlobalVarLayouts(programLayout)
                 /\ stack' = SetTop(stack, [f EXCEPT !.pc = "witness", !.i = 0])
                 /\ UNCHANGED << insts, input, symbols, symOrder, envs, curEnv,
                                 ret, status, entryPoint, rets >>
         [] f.pc = "witness" ->
            LET k == NextAt({ n \in DOMAIN symOrder :
                                   IsWitnessTableSymbol(symOrder[n]) }, f.i)
            IN
            IF k # 0
            THEN Step(insts, envs,
                      Call(stack, [f EXCEPT !.i = k],
                           Frame("cloneGlobalValueWithLinkage",
                                 Head(symbols[symOrder[k]]), module, NoOriginals)),
                      ret)
            ELSE Step(insts, envs,
                      Call(stack, [f EXCEPT !.pc = "entry"],
                           Frame("specializeIRForEntryPoint", 0, module, NoOriginals)),
                      ret)
         [] f.pc = "entry" ->
            Step(insts, envs,
                 SetTop(stack, [f EXCEPT !.pc = "bindParams", !.c = ret, !.i = 0]),
                 ret)
         [] f.pc = "bindParams" ->
            LET globals == GetGlobalInsts(insts, progModule)
                k == NextAt({ n \in DOMAIN globals :
                                IsBindGlobalGenericParam(globals[n]) }, f.i)
            IN  IF k # 0
                THEN Step(insts, envs,
                          Call(stack, [f EXCEPT !.i = k],
                               Frame("cloneValue", globals[k], module, NoOriginals)),
                          ret)
                ELSE Step(insts, envs,
                          SetTop(stack, [f EXCEPT !.pc = "bindSlots", !.i = 0]), ret)
         [] f.pc = "bindSlots" ->
            LET globals == GetGlobalInsts(insts, progModule)
                k == NextAt({ n \in DOMAIN globals :
                                IsBindGlobalExistentialSlots(globals[n]) }, f.i)
            IN  IF k # 0
                THEN Step(insts, envs,
                          Call(stack, [f EXCEPT !.i = k],
                               Frame("cloneValue", globals[k], module, NoOriginals)),
                          ret)
                ELSE Step(insts, envs,
                          SetTop(stack, [f EXCEPT !.pc = "taggedUnions", !.i = 0]),
                          ret)
         [] f.pc = "taggedUnions" ->
            LET layouts == entryPointLayout.taggedUnionTypeLayouts IN
            IF f.i < Len(layouts)
            THEN LET mangledName == layouts[f.i + 1]
                     clonedType ==
                         IF mangledName \in DOMAIN symbols
                         THEN findClonedValue(envs, curEnv, Head(symbols[mangledName]))
                         ELSE 0
                 IN  Step(IF clonedType = 0 THEN insts
                          ELSE [insts EXCEPT ![clonedType].layout =
                                   Layout("taggedUnion", f.i + 1, 0)],
                          envs, SetTop(stack, [f EXCEPT !.i = f.i + 1]), ret)
            ELSE /\ status' = "done"
                 /\ entryPoint' = f.c
                 /\ stack' = << >>
                 /\ UNCHANGED << insts, input, symbols, symOrder, envs,
                                 curEnv, ret, built, globalVarLayouts, rets >>

\* A faulty variant of findEntryPointSymbol whose lookup adds the name it
\* misses, as Dictionary::operator[] does.
findOrAddEntryPointSymbol(syms, mangledName) ==
    [ found |-> mangledName \in DOMAIN syms,
      sym |-> IF mangledName \in DOMAIN syms THEN syms[mangledName] ELSE << >>,
      syms |-> IF mangledName \in DOMAIN syms THEN syms
               ELSE syms @@ (mangledName :> << >>) ]

\* The lookup of specializeIRForEntryPoint,
\* context->getSymbols().TryGetValue(mangledName, sym): whether the name
\* is there, its candidate list, and the dictionary after the lookup.
findEntryPointSymbol(syms, mangledName) ==
    [ found |-> mangledName \in DOMAIN syms,
      sym |-> IF mangledName \in DOMAIN syms THEN syms[mangledName] ELSE << >>,
      syms |-> syms ]

\* firstBlock->getFirstParam(), pp->getNextParam(): the parameters a block
\* starts with.
RECURSIVE GetParams(_, _)
GetParams(h, children) ==
    IF children = << >> \/ h[Head(children)].op # "Param" THEN << >>
    ELSE << Head(children) >> \o GetParams(h, Tail(children))

\* applyOffsetToVarLayout(paramLayout, entryPointLayout->parametersLayout):
\* the layout of the variable, moved by the offset of the enclosing layout.
applyOffsetToVarLayout(varLayout, offsetLayout) ==
    Layout("var", varLayout.field, varLayout.offset + offsetLayout.offset)

\* A faulty variant of addParamLayouts that does not advance paramCounter:
\* every parameter receives the layout of the field paramCounter.
addFirstFieldLayouts(h, params, epl, paramCounter) ==
    [ k \in DOMAIN h |->
        IF \E n \in DOMAIN params : params[n] = k /\ paramCounter < Len(epl.fields)
        THEN [h[k] EXCEPT !.layout =
                 applyOffsetToVarLayout(epl.fields[paramCounter + 1],
                                        epl.parametersLayout)]
        ELSE h[k] ]

\* The loop of specializeIRForEntryPoint over the parameters of the first
\* block, from the counter paramCounter on: the n-th parameter has the
\* index paramIndex = paramCounter + n - 1 and receives the layout of the
\* field paramIndex when paramIndex < paramLayoutCount.
addParamLayouts(h, params, epl, paramCounter) ==
    [ k \in DOMAIN h |->
        IF \E n \in DOMAIN params :
              params[n] = k /\ paramCounter + n - 1 < Len(epl.fields)
        THEN LET n == CHOOSE n \in DOMAIN params : params[n] = k IN
             [h[k] EXCEPT !.layout =
                 applyOffsetToVarLayout(epl.fields[paramCounter + n],
                                        epl.parametersLayout)]
        ELSE h[k] ]

\* d is the instruction k or lies inside of it.
RECURSIVE IsUnder(_, _, _)
IsUnder(h, d, k) ==
    \/ d = k
    \/ h[d].parent # 0 /\ IsUnder(h, h[d].parent, k)

\* specializeGeneric(specializeInst): the body of the generic that is the
\* first operand is evaluated with the other operands for its parameters.
\* The instructions of its first block, the parameters and the return
\* aside, are instantiated at the place of the specialize instruction with
\* everything inside of them; the result is the instance of the value the
\* block returns.  A generic whose block does not end in a return is not
\* reduced.
specializeGeneric(h, specializeInst) ==
    LET genericVal == h[specializeInst].args[1]
        blocks == IF genericVal <= 0 \/ h[genericVal].op # "Generic"
                  THEN << >> ELSE h[genericVal].kids
        body == IF blocks = << >> THEN << >> ELSE h[Head(blocks)].kids
    IN  IF body = << >> \/ h[Last(body)].op # "ReturnVal"
        THEN [ h |-> h, val |-> specializeInst ]
        ELSE
        LET params == GetParams(h, body)
            roots == { k \in Range(body) : k # Last(body) /\ h[k].op # "Param" }
            all == { d \in DOMAIN h : \E k \in roots : IsUnder(h, d, k) }
            place(d) == Cardinality({ x \in all : x <= d })
            into == h[specializeInst].parent
            instance(x) ==
                IF x \in all THEN Len(h) + place(x)
                ELSE IF \E n \in DOMAIN params :
                           params[n] = x /\ n + 1 <= Len(h[specializeInst].args)
                THEN h[specializeInst].args[
                         1 + CHOOSE n \in DOMAIN params : params[n] = x]
                ELSE x
            made == [ i \in 1 .. Cardinality(all) |->
                        LET d == CHOOSE x \in all : place(x) = i IN
                        [h[d] EXCEPT
                            !.type = instance(@),
                            !.args = [ n \in DOMAIN @ |-> instance(@[n]) ],
                            !.kids = [ n \in DOMAIN @ |-> instance(@[n]) ],
                            !.parent = IF d \in roots THEN into ELSE instance(@),
                            !.orig = 0] ]
            added == [ i \in 1 .. Cardinality(roots) |->
                        instance(CHOOSE x \in roots :
                                    Cardinality({ y \in roots : y <= x }) = i) ]
        IN  [ h |-> [ (h \o made) EXCEPT ![into].kids = @ \o added ],
              val |-> instance(h[Last(body)].args[1]) ]

\* The transfer of the BindExistentialSlots decoration of the original
\* entry point to a clone that has none.
transferBindExistentialSlots(h, clonedVal, originalVal) ==
    IF h[originalVal].bindExistentialSlots /\ ~h[clonedVal].bindExistentialSlots
    THEN [h EXCEPT ![clonedVal].bindExistentialSlots = TRUE]
    ELSE h

\* builder->addKeepAliveDecoration(clonedFunc)
addKeepAliveDecoration(h, clonedFunc) ==
    [h EXCEPT ![clonedFunc].keepAlive = @ + 1]

\* A faulty variant of ensureKeepAlive that adds the decoration whether or
\* not the function has one.
addKeepAliveAgain(h, clonedFunc) ==
    [h EXCEPT ![clonedFunc].keepAlive = @ + 1]

\* The keep-alive decoration is added unless the function has one.
ensureKeepAlive(h, clonedFunc) ==
    IF h[clonedFunc].keepAlive # 0 THEN h ELSE addKeepAliveDecoration(h, clonedFunc)

\* specializeIRForEntryPoint
SpecializeIRForEntryPoint ==
    /\ At("specializeIRForEntryPoint")
    /\ LET f == Top
           found == findEntryPointSymbol(symbols, entryName)
       IN
       CASE f.pc = "start" ->
            IF ~found.found
            THEN /\ status' = "no matching IR symbol"
                 /\ stack' = << >>
                 /\ symbols' = found.syms
                 /\ UNCHANGED << insts, input, symOrder, envs, curEnv, ret,
                                 entryPoint, built, globalVarLayouts, rets >>
            ELSE LET originalVal == Head(found.sym) IN
                 Step(insts, envs,
                      Call(stack, [f EXCEPT !.pc = "cloned", !.o = originalVal],
                           Frame("cloneGlobalValueWithLinkage", originalVal,
                                 module, NoOriginals)),
                      ret)
         [] f.pc = "cloned" ->
            LET specialized == IF insts[ret].op = "Specialize"
                               THEN specializeGeneric(insts, ret)
                               ELSE [ h |-> insts, val |-> ret ]
                clonedVal == specialized.val
                bound == transferBindExistentialSlots(specialized.h, clonedVal, f.o)
            IN
            IF bound[clonedVal].op # "Func"
            THEN /\ status' = "expected entry point to be a function"
                 /\ stack' = << >>
                 /\ insts' = bound
                 /\ UNCHANGED << input, symbols, symOrder, envs, curEnv,
                                 ret, entryPoint, built, globalVarLayouts, rets >>
            ELSE LET clonedFunc == clonedVal
                     h == [ensureKeepAlive(bound, clonedFunc) EXCEPT
                              ![clonedFunc].layout = entryPointLayout.layout]
                     params == IF h[clonedFunc].kids = << >> THEN << >>
                               ELSE GetParams(h, h[Head(h[clonedFunc].kids)].kids)
                     laidOut == addParamLayouts(h, params, entryPointLayout, 0)
                 IN  IF Len(params) > Len(entryPointLayout.fields)
                     THEN /\ status' = "too many parameters"
                          /\ stack' = << >>
                          /\ insts' = laidOut
                          /\ UNCHANGED << input, symbols, symOrder, envs, curEnv,
                                          ret, entryPoint, built, globalVarLayouts, rets >>
                     ELSE Return(laidOut, envs, clonedFunc)

(***************************************************************************)
(* cloneValue and IRSpecContext::maybeCloneValue                           *)
(***************************************************************************)
Returned(o, v) ==
    IF o \in DOMAIN rets THEN [rets EXCEPT ![o] = @ \cup {v}]
    ELSE rets @@ (o :> {v})

\* cloneValue(context, originalValue): nullptr for nullptr, the memoized
\* clone when there is one, and maybeCloneValue otherwise.
CloneValue ==
    /\ At("cloneValue")
    /\ LET f == Top
           clonedValue == findClonedValue(envs, curEnv, f.o)
       IN  /\ UNCHANGED << insts, input, symbols, symOrder, envs, curEnv,
                           status, entryPoint, built, globalVarLayouts >>
           /\ IF f.pc = "start" /\ f.o = 0
              THEN stack' = Front(stack) /\ ret' = 0 /\ rets' = rets
              ELSE IF f.pc = "start" /\ clonedValue # 0
              THEN /\ stack' = Front(stack)
                   /\ ret' = clonedValue
                   /\ rets' = Returned(f.o, clonedValue)
              ELSE IF f.pc = "start"
              THEN /\ stack' = Call(stack, [f EXCEPT !.pc = "returned"],
                                    Frame("maybeCloneValue", f.o, f.b, NoOriginals))
                   /\ ret' = ret
                   /\ rets' = rets
              ELSE /\ stack' = Front(stack)
                   /\ ret' = ret
                   /\ rets' = Returned(f.o, ret)

\* The instructions maybeCloneValue hands to cloneGlobalValue.
GlobalValueOps ==
    { "StructType", "Func", "Generic", "GlobalVar", "GlobalConstant",
      "GlobalParam", "StructKey", "GlobalGenericParam", "WitnessTable" }

\* A faulty variant of StoreArg that stores the operand of the original.
storeOriginalArg(h, f) ==
    IF f.i = 0 THEN h ELSE [h EXCEPT ![f.c].args[f.i] = h[f.o].args[f.i]]

\* The arguments loop of maybeCloneValue and of cloneInst: operand f.i has
\* just been cloned (it is `ret'); the next one is cloned, if there is one.
StoreArg(h, f) == IF f.i = 0 THEN h ELSE [h EXCEPT ![f.c].args[f.i] = ret]

\* The literals maybeCloneValue makes anew from their value; an integer
\* and a floating-point literal are made with the clone of their type.
LiteralOps == { "BoolLit", "IntLit", "FloatLit", "StringLit", "PtrLit" }

TypedLiteralOps == { "IntLit", "FloatLit" }

\* IRSpecContext::maybeCloneValue.  A global value goes to cloneGlobalValue;
\* a literal is the constant of the builder, which is not registered; any
\* other instruction is cloned in place as a hoistable instruction: type,
\* creation, registration, operands, decorations and children.
MaybeCloneValue ==
    /\ At("maybeCloneValue")
    /\ LET f == Top
           o == f.o
       IN
       CASE f.pc = "start" /\ insts[o].op \in GlobalValueOps ->
            Step(insts, envs,
                 SetTop(stack, Frame("cloneGlobalValueWithLinkage", o, f.b, NoOriginals)),
                 ret)
         [] f.pc = "start" /\ insts[o].op \in LiteralOps \ TypedLiteralOps ->
            Return(insts, envs, getConstantValue(o))
         [] f.pc = "start" /\ insts[o].op \in TypedLiteralOps ->
            Step(insts, envs,
                 Call(stack, [f EXCEPT !.pc = "literal"],
                      Frame("cloneValue", getDataType(insts, o), f.b, NoOriginals)),
                 ret)
         [] f.pc = "literal" ->
            Return(insts, envs, getConstantValue(o))
         [] f.pc = "start" /\ insts[o].op \notin GlobalValueOps \cup LiteralOps ->
            AwaitType(f, "typed")
         [] f.pc = "typed" ->
            LET h == createInst(insts, insts[o].op, ret, Len(insts[o].args), o)
                clonedValue == Len(insts) + 1
            IN  Step(h, registerClonedValue(envs, curEnv, clonedValue, o),
                     SetTop(stack, [f EXCEPT !.pc = "args", !.c = clonedValue]), ret)
         [] f.pc = "args" ->
            LET h == StoreArg(insts, f) IN
            IF f.i < Len(insts[o].args)
            THEN Step(h, envs,
                      Call(stack, [f EXCEPT !.i = f.i + 1],
                           Frame("cloneValue", insts[o].args[f.i + 1], f.b, NoOriginals)),
                      ret)
            ELSE Step(cloneDecorations(h, f.c, o), envs,
                      SetTop(stack, [f EXCEPT !.pc = "children"]), ret)
         [] f.pc = "children" ->
            IF f.j < Len(insts[o].kids)
            THEN LET child == insts[o].kids[f.j + 1] IN
                 Step(insts, envs,
                      Call(stack, [f EXCEPT !.j = f.j + 1],
                           Frame("cloneInst", child, f.c, OriginalValues(child, << >>))),
                      ret)
            ELSE Return(insertAtEnd(insts, f.c, HoistParent(insts, f.c, module)),
                        envs, f.c)

(***************************************************************************)
(* cloneGlobalValue                                                        *)
(***************************************************************************)
\* A faulty variant of noMatchingValues that goes on to the statement after
\* the error: cloneGlobalValueImpl(context, originalVal,
\* IROriginalValuesForClone()).
cloneUnregisteredValue(f) ==
    Step(insts, envs,
         SetTop(stack, Frame("cloneGlobalValueImpl", f.o, module, NoOriginals)),
         ret)

\* The branch of cloneGlobalValueWithLinkage for a mangled name that the
\* symbol table does not have: SLANG_UNEXPECTED.
noMatchingValues(f) == Fatal("no matching values registered")

\* cloneGlobalValueWithLinkage(context, originalVal, originalLinkage), as
\* cloneGlobalValue calls it: originalLinkage is originalVal's own.
CloneGlobalValueWithLinkage ==
    /\ At("cloneGlobalValueWithLinkage")
    /\ LET f == Top
           originalVal == f.o
           clonedVal == findClonedValue(envs, curEnv, originalVal)
           mangledName == insts[originalVal].link
       IN  IF insts[originalVal].parent = module
           THEN Return(insts, envs, originalVal)
           ELSE IF clonedVal # 0
           THEN Return(insts, envs, clonedVal)
           ELSE IF ~HasLinkage(insts, originalVal)
           THEN Step(insts, envs,
                     SetTop(stack, Frame("cloneGlobalValueImpl", originalVal, module,
                                         OriginalValues(originalVal, << >>))),
                     ret)
           ELSE IF mangledName \notin DOMAIN symbols
           THEN noMatchingValues(f)
           ELSE LET sym == symbols[mangledName]
                    bestVal == BestCandidate(insts, target, sym)
                IN  Step(insts, envs,
                         SetTop(stack, Frame("cloneGlobalValueImpl", bestVal, module,
                                             OriginalValues(0, sym))),
                         ret)

\* cloneGlobalValueImpl: cloneInst with the shared builder, which inserts
\* into the module, and then clonedValue->moveToEnd().
CloneGlobalValueImpl ==
    /\ At("cloneGlobalValueImpl")
    /\ LET f == Top IN
       IF f.pc = "start"
       THEN Step(insts, envs,
                 Call(stack, [f EXCEPT !.pc = "cloned"],
                      Frame("cloneInst", f.o, module, f.ov)),
                 ret)
       ELSE Return(moveToEnd(insts, ret), envs, ret)

(***************************************************************************)
(* cloneInst and the clone*Impl functions                                  *)
(***************************************************************************)
\* cloneSimpleGlobalValueImpl: registration when registerValue is set, then
\* the decorations and the children of the original, each with cloneInst
\* into the clone.
CloneSimpleGlobalValueImpl ==
    /\ At("cloneSimpleGlobalValueImpl")
    /\ LET f == Top IN
       IF f.pc = "start"
       THEN Step(cloneDecorations(insts, f.c, f.o),
                 IF f.reg THEN registerClonedValues(envs, curEnv, f.c, f.ov)
                 ELSE envs,
                 SetTop(stack, [f EXCEPT !.pc = "children"]), ret)
       ELSE IF f.j < Len(insts[f.o].kids)
       THEN LET child == insts[f.o].kids[f.j + 1] IN
            Step(insts, envs,
                 Call(stack, [f EXCEPT !.j = f.j + 1],
                      Frame("cloneInst", child, f.c, OriginalValues(child, << >>))),
                 ret)
       ELSE Return(insts, envs, f.c)

\* The first loop of cloneGlobalValueWithCodeCommon: a block is created,
\* added to the clone and registered for every block of the original.
RECURSIVE CloneBlocks(_, _, _, _)
CloneBlocks(h, es, clonedValue, blocks) ==
    IF blocks = << >> THEN [h |-> h, es |-> es]
    ELSE LET clonedBlock == Len(h) + 1 IN
         CloneBlocks(insertAtEnd(createInst(h, "Block", 0, 0, Head(blocks)),
                                 clonedBlock, clonedValue),
                     registerClonedValue(es, curEnv, clonedBlock, Head(blocks)),
                     clonedValue, Tail(blocks))

\* cloneGlobalValueWithCodeCommon: the decorations, then all the blocks,
\* then the instructions of each block in order; f.i is the block at hand
\* and f.j the number of its instructions already cloned.
CloneGlobalValueWithCodeCommon ==
    /\ At("cloneGlobalValueWithCodeCommon")
    /\ LET f == Top
           blocks == insts[f.o].kids
       IN
       IF f.pc = "start"
       THEN LET r == CloneBlocks(cloneDecorations(insts, f.c, f.o), envs, f.c, blocks)
            IN  Step(r.h, r.es, SetTop(stack, [f EXCEPT !.pc = "insts", !.i = 1]), ret)
       ELSE IF f.i > Len(blocks)
       THEN Return(insts, envs, f.c)
       ELSE LET ob == blocks[f.i]
                cb == insts[f.c].kids[f.i]
            IN  IF f.j < Len(insts[ob].kids)
                THEN LET oi == insts[ob].kids[f.j + 1] IN
                     Step(insts, envs,
                          Call(stack, [f EXCEPT !.j = f.j + 1],
                               Frame("cloneInst", oi, cb, OriginalValues(oi, << >>))),
                          ret)
                ELSE Step(insts, envs,
                          SetTop(stack, [f EXCEPT !.i = f.i + 1, !.j = 0]), ret)

\* checkIRDuplicate (compiled in _DEBUG builds only): another child of the
\* module carries the mangled name.
checkIRDuplicate(h, inst, moduleInst, mangledName) ==
    \E k \in DOMAIN h[moduleInst].kids :
        /\ h[moduleInst].kids[k] # inst
        /\ h[h[moduleInst].kids[k]].link = mangledName

\* cloneFuncImpl and cloneFunctionCommon: the function is created and
\* registered, then its type, decorations and blocks are cloned, it is
\* moved to the end of its parent, and then checked for a duplicate.
cloneFuncImpl(f) ==
    CASE f.pc = "start" ->
         LET clonedFunc == Len(insts) + 1 IN
         Step(createGlobalValue(insts, "Func", 0, f.b, module, f.o),
              registerClonedValues(envs, curEnv, clonedFunc, f.ov),
              Call(stack, [f EXCEPT !.pc = "typed", !.c = clonedFunc],
                   Frame("cloneValue", insts[f.o].type, f.b, NoOriginals)),
              ret)
      [] f.pc = "typed" ->
         Step([insts EXCEPT ![f.c].type = ret], envs,
              Call(stack, [f EXCEPT !.pc = "code"],
                   [Frame("cloneGlobalValueWithCodeCommon", f.o, f.b, NoOriginals)
                        EXCEPT !.c = f.c]),
              ret)
      [] f.pc = "code" ->
         LET h == moveToEnd(insts, f.c) IN
         IF /\ debug
            /\ HasLinkage(h, f.c)
            /\ checkIRDuplicate(h, f.c, module, h[f.c].link)
         THEN FatalAfter(h, "duplicate global instruction")
         ELSE Return(h, envs, f.c)

\* cloneGlobalVarImpl: the value type of the pointer type of the variable
\* is cloned and the variable is created with a new pointer type
\* ("typed"); maybeSetClonedRate clones the rate of a rate-qualified
\* original and gives the variable the rate-qualified type ("rated"); only
\* then the variable is registered and its code is cloned.  A variable
\* whose data type is no pointer type has no value type to read.
cloneGlobalVarImpl(f) ==
    LET dataType == getDataType(insts, f.o)
        rate == getRate(insts, f.o)
        registered(h, clonedVar) ==
            Step(h, registerClonedValues(envs, curEnv, clonedVar, f.ov),
                 Call(stack, [f EXCEPT !.pc = "code", !.c = clonedVar],
                      [Frame("cloneGlobalValueWithCodeCommon", f.o, f.b, NoOriginals)
                           EXCEPT !.c = clonedVar]),
                 ret)
    IN
    CASE f.pc = "start" ->
         IF dataType = 0 \/ insts[dataType].args = << >>
         THEN Fatal("segmentation fault")
         ELSE Step(insts, envs,
                   Call(stack, [f EXCEPT !.pc = "typed"],
                        Frame("cloneValue", getValueType(insts, dataType), f.b,
                              NoOriginals)),
                   ret)
      [] f.pc = "typed" ->
         LET h == createGlobalVar(insts, ret, f.b, module, f.o)
             clonedVar == Len(insts) + 2
         IN  IF rate # 0
             THEN Step(h, envs,
                       Call(stack, [f EXCEPT !.pc = "rated", !.c = clonedVar],
                            Frame("cloneValue", rate, f.b, NoOriginals)),
                       ret)
             ELSE registered(h, clonedVar)
      [] f.pc = "rated" ->
         LET h == createTypeInst(insts, "RateQualifiedType",
                                 << ret, insts[f.c].type >>, module)
         IN  registered([h EXCEPT ![f.c].type = Len(insts) + 1], f.c)
      [] f.pc = "code" -> Return(insts, envs, f.c)

\* cloneGlobalConstantImpl: the type is cloned, then the value is created
\* and registered, then its code is cloned.  cloneGenericImpl: the same
\* without a type.
cloneValueWithCodeImpl(f) ==
    CASE f.pc = "start" /\ insts[f.o].op # "Generic" ->
         AwaitType(f, "typed")
      [] f.pc = "typed" \/ (f.pc = "start" /\ insts[f.o].op = "Generic") ->
         LET clonedVal == Len(insts) + 1 IN
         Step(createGlobalValue(insts, insts[f.o].op,
                                IF f.pc = "typed" THEN ret ELSE 0,
                                f.b, module, f.o),
              registerClonedValues(envs, curEnv, clonedVal, f.ov),
              Call(stack, [f EXCEPT !.pc = "code", !.c = clonedVal],
                   [Frame("cloneGlobalValueWithCodeCommon", f.o, f.b, NoOriginals)
                        EXCEPT !.c = clonedVal]),
              ret)
      [] f.pc = "code" -> Return(insts, envs, f.c)

\* cloneWitnessTableImpl: the table is dstTable or, without one, a new
\* table; cloneSimpleGlobalValueImpl fills it and registers it when
\* registerValue is set.
cloneWitnessTableImpl(f, dstTable, registerValue) ==
    CASE f.pc = "start" ->
         LET clonedTable == IF dstTable # 0 THEN dstTable ELSE Len(insts) + 1 IN
         Step(IF dstTable # 0 THEN insts
              ELSE createGlobalValue(insts, "WitnessTable", 0, f.b, module, f.o),
              envs,
              Call(stack, [f EXCEPT !.pc = "filled", !.c = clonedTable],
                   [Frame("cloneSimpleGlobalValueImpl", f.o, f.b, f.ov)
                        EXCEPT !.c = clonedTable, !.reg = registerValue]),
              ret)
      [] f.pc = "filled" -> Return(insts, envs, f.c)

\* cloneWitnessTableWithoutRegistering(context, builder, originalTable,
\* dstTable): cloneWitnessTableImpl with no originals to register and
\* registerValue = false.  The frame holds originalTable (o) and dstTable
\* (c); the function is called from outside of the linker, and its return
\* ends the operation.
CloneWitnessTableWithoutRegistering ==
    /\ At("cloneWitnessTableWithoutRegistering")
    /\ LET f == Top IN
       IF f.pc = "filled"
       THEN /\ status' = "returned"
            /\ stack' = << >>
            /\ ret' = f.c
            /\ UNCHANGED << insts, input, symbols, symOrder, envs, curEnv,
                            entryPoint, built, globalVarLayouts, rets >>
       ELSE cloneWitnessTableImpl(f, f.c, FALSE)

\* cloneGlobalParamImpl (the type is cloned first) and cloneStructKeyImpl,
\* cloneGlobalGenericParamImpl, cloneStructTypeImpl, cloneInterfaceTypeImpl:
\* the value is created, then cloneSimpleGlobalValueImpl registers and
\* fills it.
cloneSimpleImpl(f) ==
    CASE f.pc = "start" /\ insts[f.o].op = "GlobalParam" ->
         AwaitType(f, "typed")
      [] f.pc = "typed" \/ (f.pc = "start" /\ insts[f.o].op # "GlobalParam") ->
         LET clonedVal == Len(insts) + 1 IN
         Step(createGlobalValue(insts, insts[f.o].op,
                                IF f.pc = "typed" THEN ret ELSE 0,
                                f.b, module, f.o),
              envs,
              Call(stack, [f EXCEPT !.pc = "filled", !.c = clonedVal],
                   [Frame("cloneSimpleGlobalValueImpl", f.o, f.b, f.ov)
                        EXCEPT !.c = clonedVal]),
              ret)
      [] f.pc = "filled" ->
         IF /\ insts[f.o].op = "GlobalParam"
            /\ HasLinkage(insts, f.o)
            /\ insts[f.o].link \in DOMAIN globalVarLayouts
         THEN Return([insts EXCEPT ![f.c].layout = globalVarLayouts[insts[f.o].link]],
                     envs, f.c)
         ELSE Return(insts, envs, f.c)

\* The common case of cloneInst: the type is cloned, the instruction is
\* created and registered, its operands are cloned, it is added at the
\* builder's insertion point and its decorations are cloned.
cloneOrdinaryInst(f) ==
    CASE f.pc = "start" -> AwaitType(f, "typed")
      [] f.pc = "typed" ->
         LET clonedInst == Len(insts) + 1 IN
         Step(createInst(insts, insts[f.o].op, ret, Len(insts[f.o].args), f.o),
              registerClonedValues(envs, curEnv, clonedInst, f.ov),
              SetTop(stack, [f EXCEPT !.pc = "args", !.c = clonedInst]), ret)
      [] f.pc = "args" ->
         LET h == StoreArg(insts, f) IN
         IF f.i < Len(insts[f.o].args)
         THEN Step(h, envs,
                   Call(stack, [f EXCEPT !.i = f.i + 1],
                        Frame("cloneValue", insts[f.o].args[f.i + 1], f.b, NoOriginals)),
                   ret)
         ELSE Return(cloneDecorations(insertAtEnd(h, f.c, f.b), f.c, f.o), envs, f.c)

CodeOps == { "GlobalVar", "GlobalConstant", "Generic" }

SimpleOps ==
    { "GlobalParam", "WitnessTable", "StructType", "InterfaceType",
      "StructKey", "GlobalGenericParam" }

\* cloneInst(context, builder, originalInst, originalValues): the switch
\* on originalInst->op.
CloneInst ==
    /\ At("cloneInst")
    /\ LET f == Top
           op == insts[f.o].op
       IN  CASE op = "Func" -> cloneFuncImpl(f)
             [] op = "GlobalVar" -> cloneGlobalVarImpl(f)
             [] op \in CodeOps \ { "GlobalVar" } -> cloneValueWithCodeImpl(f)
             [] op = "WitnessTable" -> cloneWitnessTableImpl(f, 0, TRUE)
             [] op \in SimpleOps \ { "WitnessTable" } -> cloneSimpleImpl(f)
             [] OTHER -> cloneOrdinaryInst(f)

(***************************************************************************)
(* The inputs of a link operation                                          *)
(***************************************************************************)
\* The layout of an entry point as linkIR reads it: the layout itself, the
\* fields of its parameter struct, the layout of its parameters as a whole
\* and the mangled names of the tagged union types it lays out.
EntryPointLayout(fields, offset, taggedUnions) ==
    [ layout |-> Layout("entryPoint", 0, 0),
      fields |-> fields,
      parametersLayout |-> Layout("var", 0, offset),
      taggedUnionTypeLayouts |-> taggedUnions ]

\* The instructions maybeCloneValue and cloneInst know by their op.
LinkableOps == GlobalValueOps \cup { "InterfaceType" }

\* An input: the source modules, the program module, the dependency
\* modules in list order, the entry point's mangled name, the target and
\* the build.
Input(h, prog, dep, entry, t, dbg) ==
    [ insts |-> h, progModule |-> prog, deps |-> dep, entryName |-> entry,
      target |-> t, debug |-> dbg,
      entryPointLayout |-> EntryPointLayout(<< >>, 0, << >>),
      programLayout |-> ProgramLayout(<< >>, << >>, 0) ]

\* One module with the entry point A, a global value B and a type T that
\* may refer to each other.
\*   1 module   2 A (function, blocks 5 and 7)   3 B   4 T
\*   5 block of A: 6     6 a1, an instruction with the operand x
\*   7 block of A: 8     8 v, an instruction
\*   9 b1, the content of B: an instruction with the operand y, or a
\*     function or an interface type with the mangled name f
\*   10 the block of B that holds b1
\* B is any linkable instruction with or without a mangled name and with
\* the type tB; T has the type tT and the operands aT.  A global variable
\* B has the type of a pointer to tB, which is the last instruction.
GraphInsts(opB, linkB, tB, tT, aT, x, content, y) ==
    LET hasBlock == content # "none" /\ opB \in CodeOps \cup { "Func" }
        ptrType == 9 + (IF content = "none" THEN 0 ELSE 1)
                     + (IF hasBlock THEN 1 ELSE 0)
        isVar == opB = "GlobalVar"
        kidsB == IF content = "none" THEN << >>
                 ELSE IF hasBlock THEN << 10 >> ELSE << 9 >>
        b1 == IF content = "inst"
              THEN Plain("Inst", 0, << y >>, << >>, IF hasBlock THEN 10 ELSE 3)
              ELSE Inst(IF content = "func" THEN "Func" ELSE "InterfaceType",
                        0, << >>, << >>, IF hasBlock THEN 10 ELSE 3,
                        "f", FALSE, << >>)
    IN  << Plain("Module", 0, << >>,
                 IF isVar THEN << 4, ptrType, 3, 2 >> ELSE << 4, 3, 2 >>, 0),
           Inst("Func", 0, << >>, << 5, 7 >>, 1, "A", TRUE, << >>),
           Inst(opB, IF isVar THEN ptrType ELSE tB, << >>, kidsB, 1, linkB,
                FALSE, << >>),
           Plain("Inst", tT, aT, << >>, 1),
           Plain("Block", 0, << >>, << 6 >>, 2),
           Plain("Inst", 0, << x >>, << >>, 5),
           Plain("Block", 0, << >>, << 8 >>, 2),
           Plain("Inst", 0, << >>, << >>, 7) >>
        \o (IF content = "none" THEN << >> ELSE << b1 >>)
        \o (IF hasBlock THEN << Plain("Block", 0, << >>, << 9 >>, 3) >> ELSE << >>)
        \o (IF isVar THEN << Plain("PtrType", 0, << tB >>, << >>, 1) >> ELSE << >>)

\* The choices for such a module; a T that nothing refers to is left
\* without type and operands, and a global variable points to something.
GraphChoices ==
    { p \in [ opB : LinkableOps, linkB : { NoName, "B" }, tB : { 0, 3, 4 },
              tT : { 0, 3, 4 }, aT : { << >>, << 3 >> }, x : { 3, 4, 9 },
              content : { "none", "func", "iface", "inst" }, y : { 0, 2, 3, 4 } ] :
        /\ (p.content = "inst") = (p.y # 0)
        /\ p.opB = "GlobalVar" => p.tB # 0
        /\ \/ p.x = 4 \/ p.tB = 4 \/ p.y = 4
           \/ (p.tT = 0 /\ p.aT = << >>) }

GraphInputs ==
    { Input(GraphInsts(p.opB, p.linkB, p.tB, p.tT, p.aT, p.x, p.content, p.y),
            1, << >>, "A", "hlsl", FALSE) : p \in GraphChoices }

\* The same module where the instruction a1 of the first block of A uses
\* the instruction v of its second block, and nothing uses B or T.
ForwardInputs ==
    { Input(GraphInsts("StructType", NoName, 0, 0, << >>, 8, "none", 0),
            1, << >>, "A", "hlsl", FALSE) }

\* Two modules that both declare G and H, as an import leaves them: the
\* program module declares G (2) and H (3, no body) and defines the entry
\* point F (4), which uses G as an operand or as a type (6) and calls H
\* (7); the dependency module declares G (9) and defines H (10), which
\* uses its module's G (12).  A global variable G is a pointer (13, 15) to
\* a type of its module (14, 16).
ImportInsts(opG, tags1, tags2, byType) ==
    LET isVar == opG = "GlobalVar" IN
    << Plain("Module", 0, << >>,
             IF isVar THEN << 14, 13, 2, 3, 4 >> ELSE << 2, 3, 4 >>, 0),
       Inst(opG, IF isVar THEN 13 ELSE 0, << >>, << >>, 1, "G", FALSE, tags1),
       Inst("Func", 0, << >>, << >>, 1, "H", FALSE, << >>),
       Inst("Func", 0, << >>, << 5 >>, 1, "F", TRUE, << >>),
       Plain("Block", 0, << >>, << 6, 7 >>, 4),
       Plain("Inst", IF byType THEN 2 ELSE 0,
             IF byType THEN << >> ELSE << 2 >>, << >>, 5),
       Plain("Inst", 0, << 3 >>, << >>, 5),
       Plain("Module", 0, << >>,
             IF isVar THEN << 16, 15, 9, 10 >> ELSE << 9, 10 >>, 0),
       Inst(opG, IF isVar THEN 15 ELSE 0, << >>, << >>, 8, "G", TRUE, tags2),
       Inst("Func", 0, << >>, << 11 >>, 8, "H", TRUE, << >>),
       Plain("Block", 0, << >>, << 12 >>, 10),
       Plain("Inst", 0, << 9 >>, << >>, 11) >>
    \o (IF isVar
        THEN << Plain("PtrType", 0, << 14 >>, << >>, 1),
                Plain("Inst", 0, << >>, << >>, 1),
                Plain("PtrType", 0, << 16 >>, << >>, 8),
                Plain("Inst", 0, << >>, << >>, 8) >>
        ELSE << >>)

TargetTags == { << >>, << "hlsl" >>, << "glsl", "hlsl" >> }

ImportInputs ==
    { Input(ImportInsts(opG, tags1, tags2, byType), 1, << 8 >>, entry, t, dbg) :
        opG \in LinkableOps, tags1 \in TargetTags, tags2 \in TargetTags,
        byType \in BOOLEAN, entry \in { "F", "X" }, t \in { "hlsl", "glsl" },
        dbg \in BOOLEAN }

\* The largest number of candidates of one name.
MaxCands == 3

\* A candidate of the variant family: its target decorations, whether its
\* linkage decoration is an export, and whether it has a body.  (The
\* exported function with a body is H of the import family.)
VariantAttrs ==
    { a \in [ targets : { << >>, << "hlsl" >>, << "glsl" >> },
              export : BOOLEAN, body : BOOLEAN ] : ~(a.export /\ a.body) }

\* One module per candidate: its IRModuleInst, the function G and, when it
\* has a body, its block.
CandidateInsts(base, a) ==
    << Plain("Module", 0, << >>, << base + 2 >>, 0),
       Inst("Func", 0, << >>, IF a.body THEN << base + 3 >> ELSE << >>,
            base + 1, "G", a.export, a.targets) >>
    \o (IF a.body THEN << Plain("Block", 0, << >>, << >>, base + 2) >> ELSE << >>)

RECURSIVE VariantInsts(_, _)
VariantInsts(attrs, h) ==
    IF attrs = << >> THEN h
    ELSE VariantInsts(Tail(attrs), h \o CandidateInsts(Len(h), Head(attrs)))

\* The IRModuleInsts of a heap after the first, in order.
RECURSIVE ModulesAfter(_, _)
ModulesAfter(h, k) ==
    IF k >= Len(h) THEN << >>
    ELSE (IF h[k + 1].op = "Module" THEN << k + 1 >> ELSE << >>)
         \o ModulesAfter(h, k + 1)

\* Up to MaxCands modules that each hold one candidate of the entry point
\* G; the first is the program module.
VariantInputs ==
    { Input(VariantInsts(attrs, << >>), 1,
            ModulesAfter(VariantInsts(attrs, << >>), 1), "G", "hlsl", FALSE) :
        attrs \in UNION { [1 .. n -> VariantAttrs] : n \in 1 .. MaxCands } }

\* The largest number of parameters of an entry point and of fields of the
\* parameter struct of its layout.
MaxParams == 2

\* The first n fields of a parameter struct layout: field k at offset k.
RECURSIVE FieldLayouts(_)
FieldLayouts(n) ==
    IF n = 0 THEN << >> ELSE Append(FieldLayouts(n - 1), Layout("var", n, n))

\* The instructions 7 .. 6 + p: parameters of the block 3.
RECURSIVE ParamList(_, _)
ParamList(p, tP) ==
    IF p = 0 THEN << >>
    ELSE Append(ParamList(p - 1, tP), Plain("Param", tP, << >>, << >>, 3))

\* One module with the entry point F (2): its first block (3) starts with
\* p parameters (7 ..) of the type T (5) and ends with an instruction (6)
\* that uses them; its second block (4) has a parameter of its own (8 + p).
ParamInsts(p, typed) ==
    << Plain("Module", 0, << >>, << 5, 2 >>, 0),
       Inst("Func", 0, << >>, << 3, 4 >>, 1, "F", TRUE, << >>),
       Plain("Block", 0, << >>, [ k \in 1 .. p |-> 6 + k ] \o << 6 >>, 2),
       Plain("Block", 0, << >>, << 7 + p >>, 2),
       Plain("StructType", 0, << >>, << >>, 1),
       Plain("Inst", 0, [ k \in 1 .. p |-> 6 + k ], << >>, 3) >>
    \o ParamList(p, IF typed THEN 5 ELSE 0)
    \o << Plain("Param", 0, << >>, << >>, 4) >>

ParamInputs ==
    { [Input(ParamInsts(p, typed), 1, << >>, "F", "hlsl", FALSE)
          EXCEPT !.entryPointLayout = EntryPointLayout(FieldLayouts(n), offset, << >>)] :
        p \in 0 .. MaxParams, n \in 0 .. MaxParams, offset \in { 0, 4 },
        typed \in BOOLEAN }

BindOps == { "BindGlobalGenericParam", "BindGlobalExistentialSlots" }

\* A program module with two bind instructions (4 and 8, one of each kind)
\* for the global generic parameter P (2) and the type U (3), and the entry
\* point F (5) whose instruction (7) has the operands x; a dependency
\* module (9) with a second, exported U (10) and a bind instruction of
\* its own (11).
BindInsts(opBind, opU, x) ==
    << Plain("Module", 0, << >>, << 4, 2, 3, 5, 8 >>, 0),
       Inst("GlobalGenericParam", 0, << >>, << >>, 1, "P", FALSE, << >>),
       Inst(opU, 0, << >>, << >>, 1, "U", FALSE, << >>),
       Plain(opBind, 0, << 2, 3 >>, << >>, 1),
       Inst("Func", 0, << >>, << 6 >>, 1, "F", TRUE, << >>),
       Plain("Block", 0, << >>, << 7 >>, 5),
       Plain("Inst", 0, x, << >>, 6),
       Plain(CHOOSE op \in BindOps : op # opBind, 0, << 2, 3 >>, << >>, 1),
       Plain("Module", 0, << >>, << 10, 11 >>, 0),
       Inst(opU, 0, << >>, << >>, 9, "U", TRUE, << >>),
       Plain("BindGlobalGenericParam", 0, << 10 >>, << >>, 9) >>

\* The choices for such a program; the entry point refers to the
\* dependency module only when the module is loaded.
BindChoices ==
    { p \in [ opBind : BindOps,
              opU : { "StructType", "InterfaceType", "WitnessTable" },
              x : { << >>, << 2 >>, << 3 >>, << 10 >> },
              dep : { << >>, << 9 >> },
              taggedUnions : { << >>, << "U" >>, << "V", "U" >> } ] :
        p.x = << 10 >> => p.dep = << 9 >> }

BindInputs ==
    { [Input(BindInsts(p.opBind, p.opU, p.x), 1, p.dep, "F", "hlsl", FALSE)
          EXCEPT !.entryPointLayout = EntryPointLayout(<< >>, 0, p.taggedUnions)] :
        p \in BindChoices }

\* The bodies of the one function of a program that refers to nothing
\* outside itself: no block; one block (3) with a parameter (4) and an
\* instruction (5) that uses it; two blocks (3, 4), the first with a branch
\* (6) to the second, whose instructions (7, 8) use a parameter (5) of
\* the first and the function (2) itself.
SingleBodies == { "none", "one", "two" }

\* One module that defines the function F#1 (2) and nothing else.
SingleInsts(body, exported) ==
    << Plain("Module", 0, << >>, << 2 >>, 0),
       Inst("Func", 0, << >>,
            CASE body = "none" -> << >>
              [] body = "one" -> << 3 >>
              [] body = "two" -> << 3, 4 >>,
            1, "F#1", exported, << >>) >>
    \o CASE body = "none" -> << >>
          [] body = "one" ->
                << Plain("Block", 0, << >>, << 4, 5 >>, 2),
                   Plain("Param", 0, << >>, << >>, 3),
                   Plain("ReturnVal", 0, << 4 >>, << >>, 3) >>
          [] body = "two" ->
                << Plain("Block", 0, << >>, << 5, 6 >>, 2),
                   Plain("Block", 0, << >>, << 7, 8 >>, 2),
                   Plain("Param", 0, << >>, << >>, 3),
                   Plain("Inst", 0, << 4 >>, << >>, 3),
                   Plain("Inst", 0, << 2, 5 >>, << >>, 4),
                   Plain("ReturnVal", 0, << 7 >>, << >>, 4) >>

SingleInputs ==
    { [Input(SingleInsts(body, exported), 1, << >>, "F#1", t, dbg)
          EXCEPT !.entryPointLayout = EntryPointLayout(FieldLayouts(1), 0, << >>)] :
        body \in SingleBodies, exported \in BOOLEAN,
        t \in { "hlsl", "glsl" }, dbg \in BOOLEAN }

\* What a generic candidate is made of: the target decorations of the
\* generic itself and of the value its body produces, and the shape of the
\* body: no block; a block that does not end in a return; a block that
\* returns a function or a struct type; a block that returns a second
\* generic, whose block returns the function.
GenericShapes == { "none", "noreturn", "return", "type", "nested" }

GenericAttrs ==
    [ wrapper : { << >>, << "hlsl" >>, << "glsl" >> },
      produced : { << >>, << "hlsl" >>, << "glsl" >> },
      shape : GenericShapes ]

\* The generic G at the index b, a child of the module inst parent, and the
\* instructions of its body behind it.
GenericInsts(b, parent, a) ==
    LET produced(op, p) == Inst(op, 0, << >>, << >>, p, NoName, FALSE, a.produced)
        generic(kids, p, link) ==
            Inst("Generic", 0, << >>, kids, p, link, FALSE, a.wrapper)
    IN  CASE a.shape = "none" -> << generic(<< >>, parent, "G") >>
          [] a.shape = "noreturn" ->
                << generic(<< b + 1 >>, parent, "G"),
                   Plain("Block", 0, << >>, << b + 2 >>, b),
                   produced("Func", b + 1) >>
          [] a.shape \in { "return", "type" } ->
                << generic(<< b + 1 >>, parent, "G"),
                   Plain("Block", 0, << >>, << b + 2, b + 3 >>, b),
                   produced(IF a.shape = "type" THEN "StructType" ELSE "Func", b + 1),
                   Plain("ReturnVal", 0, << b + 2 >>, << >>, b + 1) >>
          [] a.shape = "nested" ->
                << generic(<< b + 1 >>, parent, "G"),
                   Plain("Block", 0, << >>, << b + 2, b + 6 >>, b),
                   generic(<< b + 3 >>, b + 1, NoName),
                   Plain("Block", 0, << >>, << b + 4, b + 5 >>, b + 2),
                   produced("Func", b + 3),
                   Plain("ReturnVal", 0, << b + 4 >>, << >>, b + 3),
                   Plain("ReturnVal", 0, << b + 2 >>, << >>, b + 1) >>

\* A program module with the entry point F (2), whose instruction (4) uses
\* the generic G (5) of the module, and a dependency module with a second
\* generic G.
GenericCandidateInsts(a1, a2) ==
    LET m1 == << Plain("Module", 0, << >>, << 5, 2 >>, 0),
                 Inst("Func", 0, << >>, << 3 >>, 1, "F", FALSE, << >>),
                 Plain("Block", 0, << >>, << 4 >>, 2),
                 Plain("Inst", 0, << 5 >>, << >>, 3) >>
                \o GenericInsts(5, 1, a1)
        m == Len(m1) + 1
    IN  m1 \o << Plain("Module", 0, << >>, << m + 1 >>, 0) >>
           \o GenericInsts(m + 1, m, a2)

GenericInputs ==
    { Input(GenericCandidateInsts(a1, a2), 1,
            << 5 + Len(GenericInsts(5, 1, a1)) >>, "F", "hlsl", FALSE) :
        a1 \in GenericAttrs, a2 \in GenericAttrs }

\* What the name of the entry point E stands for: a function, a struct
\* type, or the instantiation of a generic whose block returns a function,
\* returns a struct type or does not return.
EntryKinds ==
    { "func", "type", "specializeFunc", "specializeType", "specializeNothing" }

\* A function (or struct type) at the index b with keepAlive keep-alive
\* decorations; the function has a block (b + 1) with a parameter (b + 2)
\* of the type tP.
EntryValueInsts(b, parent, isFunc, link, keepAlive, bound, tP) ==
    IF isFunc
    THEN << [Inst("Func", 0, << >>, << b + 1 >>, parent, link, FALSE, << >>)
                EXCEPT !.keepAlive = keepAlive, !.bindExistentialSlots = bound],
            Plain("Block", 0, << >>, << b + 2 >>, b),
            Plain("Param", tP, << >>, << >>, b + 1) >>
    ELSE << [Inst("StructType", 0, << >>, << >>, parent, link, FALSE, << >>)
                EXCEPT !.keepAlive = keepAlive, !.bindExistentialSlots = bound] >>

\* One module.  Either E (2) is the function or the struct type itself, or
\* the module has the struct type T (2), the generic G (3) and the
\* instruction E (4) that specializes G to T; the block (5) of G has the
\* generic parameter (6), the value (7) and, unless G returns nothing, the
\* return of the value (the last instruction).
EntryInsts(kind, keepAlive, bound) ==
    IF kind \in { "func", "type" }
    THEN << Plain("Module", 0, << >>, << 2 >>, 0) >>
         \o EntryValueInsts(2, 1, kind = "func", "E", keepAlive, bound, 0)
    ELSE LET value == EntryValueInsts(7, 5, kind # "specializeType", NoName,
                                      keepAlive, FALSE, 6)
             return == 7 + Len(value)
         IN  << Plain("Module", 0, << >>, << 2, 3, 4 >>, 0),
                Inst("StructType", 0, << >>, << >>, 1, "T", FALSE, << >>),
                Inst("Generic", 0, << >>, << 5 >>, 1, "G", FALSE, << >>),
                [Inst("Specialize", 0, << 3, 2 >>, << >>, 1, "E", FALSE, << >>)
                    EXCEPT !.bindExistentialSlots = bound],
                Plain("Block", 0, << >>,
                      IF kind = "specializeNothing" THEN << 6, 7 >>
                      ELSE << 6, 7, return >>, 3),
                Plain("Param", 0, << >>, << >>, 5) >>
             \o value
             \o (IF kind = "specializeNothing" THEN << >>
                 ELSE << Plain("ReturnVal", 0, << 7 >>, << >>, 5) >>)

EntryInputs ==
    { [Input(EntryInsts(kind, keepAlive, bound), 1, << >>, "E", "hlsl", dbg)
          EXCEPT !.entryPointLayout = EntryPointLayout(FieldLayouts(1), offset, << >>)] :
        kind \in EntryKinds, keepAlive \in { 0, 1 }, bound \in BOOLEAN,
        dbg \in BOOLEAN, offset \in { 0, 4 } }

\* A program module with the global parameters P (2), Q (3) and one
\* without a linkage decoration (4), and the entry point F (5) whose
\* instruction (7) has the operands x.
GlobalParamInsts(x) ==
    << Plain("Module", 0, << >>, << 2, 3, 4, 5 >>, 0),
       Inst("GlobalParam", 0, << >>, << >>, 1, "P", FALSE, << >>),
       Inst("GlobalParam", 0, << >>, << >>, 1, "Q", FALSE, << >>),
       Plain("GlobalParam", 0, << >>, << >>, 1),
       Inst("Func", 0, << >>, << 6 >>, 1, "F", FALSE, << >>),
       Plain("Block", 0, << >>, << 7 >>, 5),
       Plain("Inst", 0, x, << >>, 6) >>

\* The entries of the global scope: none, P, P twice, Q.
GlobalScopes ==
    { << >>, << VarEntry("P", 1, 1) >>,
      << VarEntry("P", 1, 1), VarEntry("P", 2, 2) >>,
      << VarEntry("Q", 3, 3) >> }

\* The entries of the scope of the entry point group: none, P, an entry
\* without a key and Q, P and Q.
GroupScopes ==
    { << >>, << VarEntry("P", 4, 4) >>,
      << VarEntry(NoName, 5, 5), VarEntry("Q", 6, 6) >>,
      << VarEntry("P", 4, 4), VarEntry("Q", 6, 6) >> }

GlobalParamInputs ==
    { [Input(GlobalParamInsts(x), 1, << >>, "F", "hlsl", FALSE)
          EXCEPT !.programLayout = ProgramLayout(globalScope, groupScope, offset)] :
        x \in { << 2 >>, << 3, 4 >>, << 4, 2, 3 >> },
        globalScope \in GlobalScopes, groupScope \in GroupScopes,
        offset \in { 0, 8 } }

\* A program module with the literal L (2) of the type tL, the entry point
\* A (3) whose instruction (5) has the literal for its operands, and the
\* type T (6), which may have a rate (7, 8).
LiteralInsts(opL, tL, x) ==
    << Plain("Module", 0, << >>, << 7, 6, 8, 2, 3 >>, 0),
       Plain(opL, tL, << >>, << >>, 1),
       Inst("Func", 0, << >>, << 4 >>, 1, "A", TRUE, << >>),
       Plain("Block", 0, << >>, << 5 >>, 3),
       Plain("Inst", 0, x, << >>, 4),
       Plain("Inst", 0, << >>, << >>, 1),
       Plain("Inst", 0, << >>, << >>, 1),
       Plain("RateQualifiedType", 0, << 7, 6 >>, << >>, 1) >>

LiteralInputs ==
    { Input(LiteralInsts(opL, tL, x), 1, << >>, "A", "hlsl", FALSE) :
        opL \in LiteralOps, tL \in { 0, 6, 8 },
        x \in { << 2 >>, << 2, 2 >>, << 6, 2 >> } }

\* A program module with the global variable V (4), a pointer (3) to the
\* type T (2), with or without a rate (8, 9), a mangled name and an
\* initializer (10, 11) that uses x; the instruction (7) of the entry point
\* A (5) uses V.
GlobalVarInsts(rated, linkV, body, x) ==
    << Plain("Module", 0, << >>, << 2, 3, 8, 9, 4, 5 >>, 0),
       Plain("Inst", 0, << >>, << >>, 1),
       Plain("PtrType", 0, << 2 >>, << >>, 1),
       Inst("GlobalVar", IF rated THEN 9 ELSE 3, << >>,
            IF body THEN << 10 >> ELSE << >>, 1, linkV, FALSE, << >>),
       Inst("Func", 0, << >>, << 6 >>, 1, "A", TRUE, << >>),
       Plain("Block", 0, << >>, << 7 >>, 5),
       Plain("Inst", 0, << 4 >>, << >>, 6),
       Plain("Inst", 0, << >>, << >>, 1),
       Plain("RateQualifiedType", 0, << 8, 3 >>, << >>, 1) >>
    \o (IF body THEN << Plain("Block", 0, << >>, << 11 >>, 4),
                        Plain("Inst", 0, << x >>, << >>, 10) >>
        ELSE << >>)

GlobalVarInputs ==
    { Input(GlobalVarInsts(rated, linkV, body, x), 1, << >>, "A", "hlsl", dbg) :
        rated \in BOOLEAN, linkV \in { NoName, "V" }, body \in BOOLEAN,
        x \in { 2, 4, 8 }, dbg \in BOOLEAN }

\* The operands and the types of an input are instructions of its modules;
\* a global variable has a pointer type, with or without a rate.
WellFormedInput(in) ==
    \A k \in DOMAIN in.insts :
        /\ in.insts[k].type \in 0 .. Len(in.insts)
        /\ \A a \in Range(in.insts[k].args) : a \in 1 .. Len(in.insts)
        /\ in.insts[k].op = "GlobalVar" =>
               LET dataType == getDataType(in.insts, k) IN
               dataType # 0 /\ in.insts[dataType].op = "PtrType"
                            /\ Len(in.insts[dataType].args) = 1

Inputs ==
    { in \in GraphInputs \cup ForwardInputs \cup ImportInputs \cup VariantInputs
              \cup ParamInputs \cup BindInputs \cup SingleInputs \cup EntryInputs
              \cup GlobalParamInputs \cup LiteralInputs \cup GlobalVarInputs :
        WellFormedInput(in) }

(***************************************************************************)
(* The specification                                                       *)
(***************************************************************************)
\* The LinkedIR a link operation returned: the instructions of its module
\* and its entry point; NoLinkedIR before any.
LinkedIR(h, mod, entry) ==
    [ module |-> SubSeq(h, mod, Len(h)), entryPoint |-> entry ]

NoLinkedIR == LinkedIR(<< >>, 1, 0)

\* initializeSharedSpecContext(sharedContext, session, module, target):
\* without a module it creates one, and the instructions are `h' with the
\* new IRModuleInst behind them; linkIR passes nullptr.
initializeSharedSpecContext(h, mod) ==
    IF mod = 0 THEN Append(h, Plain("Module", 0, << >>, << >>, 0)) ELSE h

\* What an IRSpecializationState holds besides its module: the symbol
\* table of its shared context with the order of its keys, the layouts of
\* its context and the environments, of which globalEnv is the first.
SpecializationState(syms, order, layouts, es) ==
    [ symbols |-> syms, symOrder |-> order, globalVarLayouts |-> layouts,
      envs |-> es ]

\* A faulty variant of IRSpecializationState whose storage is static: a
\* call of linkIR finds what the call before left in it.
staticSpecializationState(storage) == storage

\* "IRSpecializationState stateStorage;" in linkIR: a local, constructed
\* with every call whatever `storage', the memory it is constructed in,
\* held before: the dictionaries are empty and the environment is globalEnv.
IRSpecializationState(storage) ==
    SpecializationState(<< >>, << >>, << >>,
                        << [parent |-> 0, clonedValues |-> << >>] >>)

\* linkIR has made its state: initializeSharedSpecContext created the
\* destination module, the symbol table and the environment are empty.
InitFrom(inputs) ==
    \E in \in inputs :
        /\ insts = initializeSharedSpecContext(in.insts, 0)
        /\ module = Len(in.insts) + 1
        /\ progModule = in.progModule
        /\ deps = in.deps
        /\ entryName = in.entryName
        /\ target = in.target
        /\ debug = in.debug
        /\ entryPointLayout = in.entryPointLayout
        /\ programLayout = in.programLayout
        /\ LET state == IRSpecializationState(
                            SpecializationState(<< >>, << >>, << >>,
                                << [parent |-> 0, clonedValues |-> << >>] >>)) IN
               /\ globalVarLayouts = state.globalVarLayouts
               /\ symbols = state.symbols
               /\ symOrder = state.symOrder
               /\ envs = state.envs
        /\ curEnv = 1
        /\ stack = << Frame("linkIR", 0, Len(in.insts) + 1, NoOriginals) >>
        /\ ret = 0
        /\ status = "running"
        /\ entryPoint = 0
        /\ built = << >>
        /\ rets = << >>
        /\ first = NoLinkedIR
        /\ m_irModule = in.progModule
        /\ threads = << >>

Init == InitFrom(Inputs)

Next ==
    \/ LinkIR
    \/ InsertGlobalValueSymbols
    \/ SpecializeIRForEntryPoint
    \/ CloneValue
    \/ MaybeCloneValue
    \/ CloneGlobalValueWithLinkage
    \/ CloneGlobalValueImpl
    \/ CloneInst
    \/ CloneSimpleGlobalValueImpl
    \/ CloneGlobalValueWithCodeCommon

Spec == Init /\ [][Next]_vars

\* Programs whose entry point uses a generic with two candidates.
GenericInit == InitFrom(GenericInputs)

GenericSpec == GenericInit /\ [][Next]_vars

(***************************************************************************)
(* cloneWitnessTableWithoutRegistering, called on its own                  *)
(***************************************************************************)
\* The global instructions of the modules, in the order in which
\* insertGlobalValueSymbols meets them.
RECURSIVE AllGlobalInsts(_, _)
AllGlobalInsts(h, modules) ==
    IF modules = << >> THEN << >>
    ELSE GetGlobalInsts(h, Head(modules)) \o AllGlobalInsts(h, Tail(modules))

\* The symbol table after insertGlobalValueSymbol has seen the instructions.
RECURSIVE InsertedSymbols(_, _, _)
InsertedSymbols(syms, h, globals) ==
    IF globals = << >> THEN syms
    ELSE InsertedSymbols(insertGlobalValueSymbol(syms, h, Head(globals)),
                         h, Tail(globals))

\* The keys of that table in the order they were added.
RECURSIVE InsertionOrder(_, _, _)
InsertionOrder(order, h, globals) ==
    IF globals = << >> THEN order
    ELSE InsertionOrder(
             IF HasLinkage(h, Head(globals)) /\ h[Head(globals)].link \notin Range(order)
             THEN Append(order, h[Head(globals)].link) ELSE order,
             h, Tail(globals))

\* A program module with the witness table W (2), with or without a mangled
\* name, whose entry (3) refers to x: the type T (4), the function A (5) or
\* the table itself; the instruction (7) of A uses the table.
WitnessInsts(linkW, x) ==
    << Plain("Module", 0, << >>, << 2, 4, 5 >>, 0),
       Inst("WitnessTable", 0, << >>, << 3 >>, 1, linkW, FALSE, << >>),
       Plain("Inst", 0, << x >>, << >>, 2),
       Plain("Inst", 0, << >>, << >>, 1),
       Inst("Func", 0, << >>, << 6 >>, 1, "A", TRUE, << >>),
       Plain("Block", 0, << >>, << 7 >>, 5),
       Plain("Inst", 0, << 2 >>, << >>, 6) >>

WitnessInputs ==
    { Input(WitnessInsts(linkW, x), 1, << >>, "A", "hlsl", dbg) :
        linkW \in { NoName, "W" }, x \in { 2, 4, 5 }, dbg \in BOOLEAN }

\* A context whose destination module is empty and whose symbol table is
\* built, and a call of cloneWitnessTableWithoutRegistering for the table
\* 2 of the program with a dstTable that was created in the destination
\* module before (given) or with none.
WitnessInitFrom(inputs, givens) ==
    \E in \in inputs, given \in givens :
        LET mod == Len(in.insts) + 1
            empty == Append(in.insts, Plain("Module", 0, << >>, << >>, 0))
            globals == AllGlobalInsts(in.insts, << in.progModule >> \o in.deps)
        IN  /\ insts = IF given
                       THEN createGlobalValue(empty, "WitnessTable", 0, mod, mod, 0)
                       ELSE empty
            /\ module = mod
            /\ progModule = in.progModule
            /\ deps = in.deps
            /\ entryName = in.entryName
            /\ target = in.target
            /\ debug = in.debug
            /\ entryPointLayout = in.entryPointLayout
            /\ programLayout = in.programLayout
            /\ globalVarLayouts = << >>
            /\ symbols = InsertedSymbols(<< >>, in.insts, globals)
            /\ symOrder = InsertionOrder(<< >>, in.insts, globals)
            /\ envs = << [parent |-> 0, clonedValues |-> << >>] >>
            /\ curEnv = 1
            /\ stack = << [Frame("cloneWitnessTableWithoutRegistering", 2, mod,
                                 NoOriginals)
                              EXCEPT !.c = IF given THEN mod + 1 ELSE 0] >>
            /\ ret = 0
            /\ status = "running"
            /\ entryPoint = 0
            /\ built = InsertedSymbols(<< >>, in.insts, globals)
            /\ rets = << >>
            /\ first = NoLinkedIR
            /\ m_irModule = in.progModule
            /\ threads = << >>

WitnessNext ==
    \/ CloneWitnessTableWithoutRegistering
    \/ CloneValue
    \/ MaybeCloneValue
    \/ CloneGlobalValueWithLinkage
    \/ CloneGlobalValueImpl
    \/ CloneInst
    \/ CloneSimpleGlobalValueImpl
    \/ CloneGlobalValueWithCodeCommon

WitnessSpec == WitnessInitFrom(WitnessInputs, BOOLEAN) /\ [][WitnessNext]_vars

(***************************************************************************)
(* Linking twice                                                           *)
(***************************************************************************)
\* The largest number of objects the caller allocates between two calls of
\* linkIR.
MaxGap == 1

\* The caller keeps the LinkedIR of a link that is done, and with it the
\* module of that link, and calls linkIR again for the same program, entry
\* point, layouts and target.  linkIR constructs a new
\* IRSpecializationState and initializeSharedSpecContext creates a new
\* destination module, at an address the allocator chooses: behind the
\* module of the link before and the objects allocated since, which are
\* no business of the linker and to which no instruction refers.  The source
\* modules are the instructions the link before left, the dictionaries of
\* the layouts are the objects the link before read.
Relink ==
    /\ status = "done"
    /\ first = NoLinkedIR
    /\ first' = LinkedIR(insts, module, entryPoint)
    /\ \E gap \in 0 .. MaxGap :
          /\ insts' = initializeSharedSpecContext(
                          insts \o [ k \in 1 .. gap |->
                                        Plain("Inst", 0, << >>, << >>, 0) ], 0)
          /\ module' = Len(insts) + gap + 1
          /\ stack' = << Frame("linkIR", 0, Len(insts) + gap + 1, NoOriginals) >>
    /\ LET state == IRSpecializationState(
                        SpecializationState(symbols, symOrder,
                                            globalVarLayouts, envs))
       IN  /\ symbols' = state.symbols
           /\ symOrder' = state.symOrder
           /\ globalVarLayouts' = state.globalVarLayouts
           /\ envs' = state.envs
    /\ curEnv' = 1
    /\ ret' = 0
    /\ status' = "running"
    /\ entryPoint' = 0
    /\ built' = << >>
    /\ rets' = << >>
    /\ UNCHANGED << progModule, deps, target, entryName, debug,
                    entryPointLayout, programLayout, m_irModule, threads >>

\* The programs that are linked twice.
RelinkInputs ==
    { in \in ForwardInputs \cup ImportInputs \cup ParamInputs \cup BindInputs
              \cup GlobalParamInputs :
        WellFormedInput(in) }

TwiceInit == InitFrom(RelinkInputs)

TwiceNext == Next \/ Relink

TwiceSpec == TwiceInit /\ [][TwiceNext]_vars

(***************************************************************************)
(* Link operations on threads of their own                                 *)
(*                                                                         *)
(* Two threads call linkIR for entry points of one Program.  The           *)
(* IRSpecializationState of a call is a local of linkIR: its destination   *)
(* module, symbol table and environment are in the record of the thread.   *)
(* The Program is shared: Program::getOrCreateIRModule reads and writes    *)
(* m_irModule without any synchronisation, statement by statement.  IR     *)
(* modules are named here: "null" is the null pointer, "ir0" a module      *)
(* made before the threads started and "ir1", "ir2" the ones the threads   *)
(* generate; all of them define the same mangled names.                    *)
(***************************************************************************)
Threads == { 1, 2 }

ProgramSymbols == { "F", "G" }

\* generateIRForProgram(session, this, sink) on the thread t: a new module.
generateIRForProgram(t) == IF t = 1 THEN "ir1" ELSE "ir2"

\* Another thread has written m_irModule: the accesses of the thread t to
\* it are not ordered with that write, a data race.
Raced(t) == \E u \in Threads \ { t } : threads[u].wrote

\* What a read of m_irModule by the thread t yields: the value stored, or
\* after a data race an indeterminate value as well.
ReadIRModule(t) ==
    { m_irModule } \cup IF Raced(t) THEN { "indeterminate" } ELSE { }

\* originalModule->getGlobalInsts(): the mangled names insertGlobalValueSymbols
\* can find in a module; an indeterminate pointer may hold any of them.
GlobalSymbolsOf(irModule) ==
    CASE irModule = "null" -> { { } }
      [] irModule = "indeterminate" -> SUBSET ProgramSymbols
      [] OTHER -> { ProgramSymbols }

\* What linkIR returns for an entry point and a symbol table.
LinkResult(entry, syms) ==
    IF entry \in syms THEN [ status |-> "done", entryPoint |-> entry ]
    ELSE [ status |-> "no matching IR symbol", entryPoint |-> "" ]

\* The state of the model of one call, which the threads leave alone.
linker == << insts, progModule, deps, target, entryName, debug,
             entryPointLayout, programLayout, module, symbols, symOrder, envs, curEnv,
             stack, ret, status, entryPoint, built, globalVarLayouts, rets, first >>

\* linkIR up to the call of getOrCreateIRModule: the IRSpecializationState
\* and the destination module of this call.
InitializeSharedSpecContext(t) ==
    /\ threads[t].pc = "linkIR"
    /\ threads' = [threads EXCEPT ![t].pc = "getOrCreateIRModule",
                                  ![t].module = t]
    /\ UNCHANGED << m_irModule, linker >>

\* if(!m_irModule)
CheckIRModule(t) ==
    /\ threads[t].pc = "getOrCreateIRModule"
    /\ \E m \in ReadIRModule(t) :
          threads' = [threads EXCEPT
              ![t].pc = IF m = "null" THEN "generate" ELSE "return",
              ![t].read = TRUE]
    /\ UNCHANGED << m_irModule, linker >>

\* generateIRForProgram(m_session, this, sink)
GenerateIRForProgram(t) ==
    /\ threads[t].pc = "generate"
    /\ threads' = [threads EXCEPT ![t].pc = "assign",
                                  ![t].generated = generateIRForProgram(t)]
    /\ UNCHANGED << m_irModule, linker >>

\* m_irModule = ...
AssignIRModule(t) ==
    /\ threads[t].pc = "assign"
    /\ m_irModule' = threads[t].generated
    /\ threads' = [threads EXCEPT ![t].pc = "return", ![t].wrote = TRUE]
    /\ UNCHANGED linker

\* return m_irModule
ReturnIRModule(t) ==
    /\ threads[t].pc = "return"
    /\ \E m \in ReadIRModule(t) :
          threads' = [threads EXCEPT ![t].pc = "insertGlobalValueSymbols",
                                    ![t].originalProgramIRModule = m,
                                    ![t].read = TRUE]
    /\ UNCHANGED << m_irModule, linker >>

\* insertGlobalValueSymbols(sharedContext, originalProgramIRModule)
InsertProgramSymbols(t) ==
    /\ threads[t].pc = "insertGlobalValueSymbols"
    /\ \E syms \in GlobalSymbolsOf(threads[t].originalProgramIRModule) :
          threads' = [threads EXCEPT ![t].pc = "specializeIRForEntryPoint",
                                    ![t].symbols = syms]
    /\ UNCHANGED << m_irModule, linker >>

\* The rest of linkIR, which works on the state of its own call.
LinkEntryPoint(t) ==
    /\ threads[t].pc = "specializeIRForEntryPoint"
    /\ threads' = [threads EXCEPT
          ![t].pc = "done",
          ![t].result = LinkResult(threads[t].entry, threads[t].symbols)]
    /\ UNCHANGED << m_irModule, linker >>

\* A thread about to call linkIR for an entry point.
Thread(entry) ==
    [ pc |-> "linkIR", entry |-> entry, module |-> 0, generated |-> "null",
      originalProgramIRModule |-> "null", symbols |-> { },
      result |-> [ status |-> "running", entryPoint |-> "" ],
      read |-> FALSE, wrote |-> FALSE ]

\* No link operation of the model of one call is under way.
ConcurrentInit ==
    /\ insts = << >>
    /\ module = 0
    /\ progModule = 0
    /\ deps = << >>
    /\ entryName = NoName
    /\ target = "hlsl"
    /\ debug = FALSE
    /\ entryPointLayout = EntryPointLayout(<< >>, 0, << >>)
    /\ programLayout = ProgramLayout(<< >>, << >>, 0)
    /\ globalVarLayouts = << >>
    /\ symbols = << >>
    /\ symOrder = << >>
    /\ envs = << >>
    /\ curEnv = 0
    /\ stack = << >>
    /\ ret = 0
    /\ status = "running"
    /\ entryPoint = 0
    /\ built = << >>
    /\ rets = << >>
    /\ first = NoLinkedIR
    /\ m_irModule \in { "null", "ir0" }
    /\ \E e1 \in ProgramSymbols, e2 \in ProgramSymbols :
          threads = << Thread(e1), Thread(e2) >>

ConcurrentNext ==
    \/ \E t \in Threads : InitializeSharedSpecContext(t)
    \/ \E t \in Threads : CheckIRModule(t)
    \/ \E t \in Threads : GenerateIRForProgram(t)
    \/ \E t \in Threads : AssignIRModule(t)
    \/ \E t \in Threads : ReturnIRModule(t)
    \/ \E t \in Threads : InsertProgramSymbols(t)
    \/ \E t \in Threads : LinkEntryPoint(t)

ConcurrentSpec == ConcurrentInit /\ [][ConcurrentNext]_vars

(***************************************************************************)
(* Lookups in a chain of environment frames                                *)
(***************************************************************************)
MaxFrames == 3

\* The clonedValues dictionaries over the originals 1, 2 and the clones 3, 4.
MemoTables ==
    UNION { [ keys -> { 3, 4 } ] : keys \in SUBSET { 1, 2 } }

\* The chains of n frames: the frame 1 is the root, the parent of the
\* frame k + 1 is the frame k, the current frame is the innermost one.
EnvChains(n) ==
    { [ k \in 1 .. n |-> [ parent |-> k - 1, clonedValues |-> tables[k] ] ] :
        tables \in [ 1 .. n -> MemoTables ] }

\* findClonedValue(context, originalValue) is called with some chain of
\* frames as context->getEnv().
EnvInit ==
    /\ insts = << >>
    /\ module = 0
    /\ progModule = 0
    /\ deps = << >>
    /\ entryName = NoName
    /\ target = "hlsl"
    /\ debug = FALSE
    /\ entryPointLayout = EntryPointLayout(<< >>, 0, << >>)
    /\ programLayout = ProgramLayout(<< >>, << >>, 0)
    /\ globalVarLayouts = << >>
    /\ symbols = << >>
    /\ symOrder = << >>
    /\ \E n \in 1 .. MaxFrames :
          /\ envs \in EnvChains(n)
          /\ curEnv = n
    /\ \E originalValue \in { 1, 2 } :
          stack = << Frame("findClonedValue", originalValue, 0, NoOriginals) >>
    /\ ret = 0
    /\ status = "running"
    /\ entryPoint = 0
    /\ built = << >>
    /\ rets = << >>
    /\ first = NoLinkedIR
    /\ m_irModule = 0
    /\ threads = << >>

\* findClonedValue
FindClonedValue ==
    /\ At("findClonedValue")
    /\ Return(insts, envs, findClonedValue(envs, curEnv, Top.o))

EnvNext == FindClonedValue

EnvSpec == EnvInit /\ [][EnvNext]_vars

(***************************************************************************)
(* Properties of the link operation                                        *)
(***************************************************************************)
\* The symbol table builder has finished.
Built == status # "running" \/ stack[1].pc # "start"

\* C1: after a link that finished, every mangled name that an instruction
\* of the destination module carries is carried by exactly one of them.
UniqueLinkageNames ==
    status = "done" =>
        \A k \in DstIds : \A l \in DstIds :
            (insts[k].link # NoName /\ insts[k].link = insts[l].link) => k = l

\* The rank of a candidate for the active target: 2 when one of its target
\* decorations names the target, 1 when it has none, 0 otherwise.
TargetLevel(v) ==
    IF \E k \in DOMAIN insts[v].targets : insts[v].targets[k] = target THEN 2
    ELSE IF insts[v].targets = << >> THEN 1
    ELSE 0

HasBody(v) == insts[v].kids # << >>

\* c comes strictly after v in the lexicographic order
\* (target level, export marker, has a body).
RanksAbove(c, v) ==
    \/ TargetLevel(c) > TargetLevel(v)
    \/ /\ TargetLevel(c) = TargetLevel(v)
       /\ insts[c].export /\ ~insts[v].export
    \/ /\ TargetLevel(c) = TargetLevel(v)
       /\ insts[c].export = insts[v].export
       /\ HasBody(c) /\ ~HasBody(v)

\* The selections made and not yet finished: the calls of
\* cloneGlobalValueImpl with the chosen candidate and its candidate list.
Selections ==
    { k \in DOMAIN stack :
        stack[k].fn = "cloneGlobalValueImpl" /\ stack[k].ov.sym # << >> }

\* C2: the candidate chosen from a candidate list is one of the list, and no
\* candidate of the list comes after it in the order (target level, export
\* marker, has a body).
ChosenCandidateIsMaximal ==
    \A k \in Selections :
        /\ stack[k].o \in Range(stack[k].ov.sym)
        /\ \A c \in Range(stack[k].ov.sym) : ~RanksAbove(c, stack[k].o)

\* A selection among three candidates of one target level that the export
\* marker decides, against a candidate with a body, for a later candidate.
ExportDecidesAmongThree ==
    \E k \in Selections :
        /\ Len(stack[k].ov.sym) = 3
        /\ stack[k].o # Head(stack[k].ov.sym)
        /\ \E c \in Range(stack[k].ov.sym) :
              /\ TargetLevel(c) = TargetLevel(stack[k].o)
              /\ insts[stack[k].o].export /\ ~insts[c].export
              /\ HasBody(c) /\ ~HasBody(stack[k].o)

\* C3: a destination instruction that carries a mangled name of the symbol
\* table, cloned from a candidate of that name, is a clone of the candidate
\* the selector picks among all candidates of the name, whatever its kind.
ClonesAreOfBestCandidate ==
    Built =>
        \A d \in DstIds :
            (/\ insts[d].link \in DOMAIN built
             /\ insts[d].orig \in Range(built[insts[d].link]))
                => insts[d].orig = BestCandidate(insts, target, built[insts[d].link])

\* C4: the calls of cloneValue on one original all return the same clone.
CloneValueReturnsOneClone ==
    \A o \in DOMAIN rets : Cardinality(rets[o]) <= 1

\* C5: no source instruction has more than one clone in the destination
\* module.
ClonedAtMostOnce ==
    \A o \in SrcIds : Cardinality(ClonesOf(o)) <= 1

\* The instructions in the blocks of the function fn, their operands and
\* the types of fn and of those instructions.
BodyInsts(fn) == UNION { Range(insts[blk].kids) : blk \in Range(insts[fn].kids) }

OperandsIn(fn) == UNION { Range(insts[i].args) : i \in BodyInsts(fn) }

TypesIn(fn) == { insts[fn].type } \cup { insts[i].type : i \in BodyInsts(fn) }

\* The source functions.
SrcFuncs == { k \in SrcIds : insts[k].op = "Func" }

\* Two functions of a source module that reference each other and nothing
\* else, where a is the requested entry point.
MutualRecursion(a, b) ==
    /\ a # b
    /\ insts[a].link = entryName
    /\ b \in OperandsIn(a) /\ a \in OperandsIn(b)
    /\ OperandsIn(a) \cup OperandsIn(b) \subseteq { a, b }
    /\ TypesIn(a) \cup TypesIn(b) = { 0 }

\* Every clone of an instruction of the function fn lies in a block of a
\* clone of fn, and its operands that were fn or other are clones of them.
CrossReferencesResolved(fn, other) ==
    \A i \in BodyInsts(fn) : \A c \in ClonesOf(i) :
        /\ insts[c].parent # 0
        /\ insts[insts[c].parent].parent \in ClonesOf(fn)
        /\ \A k \in DOMAIN insts[i].args :
              insts[c].args[k] \in ClonesOf(insts[i].args[k])

\* C6: for two functions that reference each other, the link with the first
\* as entry point never fails and never stops before it is done, neither
\* function ever has a second clone, and the finished module holds exactly
\* one clone of each, whose instructions reference the clone of the other.
MutualRecursionLinks ==
    \A a \in SrcFuncs : \A b \in SrcFuncs :
        MutualRecursion(a, b) =>
            /\ status \in { "running", "done" }
            /\ status = "running" => ENABLED Next
            /\ Cardinality(ClonesOf(a)) <= 1
            /\ Cardinality(ClonesOf(b)) <= 1
            /\ status = "done" =>
                  /\ ClonesOf(a) = { entryPoint }
                  /\ Cardinality(ClonesOf(b)) = 1
                  /\ \A i \in BodyInsts(a) \cup BodyInsts(b) :
                        Cardinality(ClonesOf(i)) = 1
                  /\ CrossReferencesResolved(a, b)
                  /\ CrossReferencesResolved(b, a)

\* The link of two functions that reference each other is done.
MutualRecursionLinked ==
    /\ status = "done"
    /\ \E a \in SrcFuncs : \E b \in SrcFuncs :
          MutualRecursion(a, b) /\ ClonesOf(b) # {}

\* C7: a link operation ends: its recursion never repeats without end.
LinkTerminates == status # "stack overflow"

\* The clone of the original o has been started and is not finished.
InProgress(o) ==
    \E k \in 1 .. Len(stack) - 1 :
        stack[k].fn \in { "maybeCloneValue", "cloneInst" } /\ stack[k].o = o

\* cloneValue is asked for an original whose clone is in progress and
\* which the memo does not have.
ReentrantRequest ==
    /\ At("cloneValue")
    /\ Top.pc = "start"
    /\ Top.o # 0
    /\ findClonedValue(envs, curEnv, Top.o) = 0
    /\ InProgress(Top.o)

\* C8: a request for an original whose clone is in progress and which the
\* memo does not resolve ends the link with a circular-definition error.
CircularDefinitionReported ==
    [][ReentrantRequest => status' = "circular definition"]_vars

\* C9: when the symbol table has no entry for the name of the entry point,
\* the link is never done and never goes past the lookup, which ends it
\* with the error "no matching IR symbol"; no entry point is returned and
\* the symbol table stays as the builder left it.
MissingEntryPointIsFatal ==
    (Built /\ entryName \notin DOMAIN built) =>
        /\ status \in { "running", "no matching IR symbol" }
        /\ entryPoint = 0
        /\ symbols = built
        /\ \A k \in DOMAIN stack :
              stack[k].fn = "specializeIRForEntryPoint" => stack[k].pc = "start"
        /\ (stack # << >> /\ Top.fn = "specializeIRForEntryPoint") =>
              ENABLED (SpecializeIRForEntryPoint /\ status' = "no matching IR symbol")

\* The lookup of a missing entry point has ended the link.
EntryPointNotFound ==
    status = "no matching IR symbol" /\ entryName \notin DOMAIN built

\* C10, as stated: no destination instruction is a clone of an instruction
\* whose mangled name has no candidate in the symbol table: cloning that
\* reaches such an instruction ends the link without a clone of it.
NoCloneOfUnregisteredName ==
    Built =>
        \A d \in DstIds :
            (insts[d].orig # 0 /\ HasLinkage(insts, insts[d].orig))
                => insts[insts[d].orig].link \in DOMAIN built

\* cloneGlobalValueWithLinkage looks up a mangled name that the symbol
\* table does not have: the original is not in the destination module, has
\* no clone in the memo and carries the name.
ZeroCandidateLookup ==
    /\ At("cloneGlobalValueWithLinkage")
    /\ insts[Top.o].parent # module
    /\ findClonedValue(envs, curEnv, Top.o) = 0
    /\ HasLinkage(insts, Top.o)
    /\ insts[Top.o].link \notin DOMAIN symbols

\* C10, amended: a lookup of cloneGlobalValueWithLinkage that finds no
\* candidate ends the link with the error "no matching values registered":
\* no instruction is created for the reference and no entry point is
\* returned.
ZeroCandidateLookupIsFatal ==
    [][ZeroCandidateLookup =>
          /\ status' = "no matching values registered"
          /\ stack' = << >>
          /\ insts' = insts
          /\ entryPoint' = 0]_vars

\* A lookup without candidates has ended the link.
UnregisteredNameFound ==
    /\ status = "no matching values registered"
    /\ entryPoint = 0
    /\ \E k \in SrcIds : HasLinkage(insts, k) /\ insts[k].link \notin DOMAIN built

\* C11: once the symbol table builder has finished, the symbol table is
\* the one it left: the same names and, for every name, the same candidates
\* in the same order, through cloning, layout attachment and the sweeps, in
\* a link that is done and in a link that ended with a fatal error.
SymbolTableReadOnly ==
    Built => (symbols = built /\ Range(symOrder) = DOMAIN built)

\* A link with a name of two candidates, bind instructions and tagged union
\* layouts is done and has cloned instructions.
SymbolTableKeptThroughLink ==
    /\ status = "done"
    /\ symbols = built
    /\ \E name \in DOMAIN built : Len(built[name]) >= 2
    /\ entryPointLayout.taggedUnionTypeLayouts # << >>
    /\ \E d \in DstIds : insts[d].op \in BindOps

\* A value of the destination module: one of its instructions, or a
\* constant of its builder.
InDestination(v) == v \in DstIds \/ v < 0

\* C12: after a link that is done, every operand of every instruction of
\* the destination module is a value of the destination module, and so is
\* its type when it has one; a clone has as many operands as its original,
\* none of them null.
OutputSelfContained ==
    status = "done" =>
        \A d \in DstIds :
            /\ \A k \in DOMAIN insts[d].args : InDestination(insts[d].args[k])
            /\ insts[d].type # 0 => InDestination(insts[d].type)
            /\ insts[d].orig # 0 =>
                  Len(insts[d].args) = Len(insts[insts[d].orig].args)

\* A link is done whose destination module has a clone with operands, made
\* from an instruction of a source module that lies behind the first global
\* instruction of the program module, and a typed instruction with operands.
TypedOperandsCloned ==
    /\ status = "done"
    /\ \E d \in DstIds : insts[d].args # << >> /\ insts[d].orig > progModule + 1
    /\ \E d \in DstIds : insts[d].args # << >> /\ insts[d].type # 0

\* C13: no step of a link operation changes an instruction of a source
\* module (its parent, operands, children, decorations and position stay),
\* every instruction the link adds has its parent in the destination module,
\* and cloneValue returns, for an instruction of a source module, a value
\* of the destination module.
SourcesUntouched ==
    [][/\ \A k \in SrcIds : insts'[k] = insts[k]
       /\ \A k \in DOMAIN insts' :
             k >= module => (insts'[k].parent = 0 \/ insts'[k].parent >= module)
       /\ \A o \in DOMAIN rets' : \A v \in rets'[o] :
             (o < module /\ v # 0) => (v >= module \/ v < 0)]_vars

\* A link over two modules is done: the clone of the entry point has a
\* decoration its original has not, and every clone has its parent.
SourcesKeptAfterLink ==
    /\ status = "done"
    /\ deps # << >>
    /\ insts[entryPoint].keepAlive = 1
    /\ insts[insts[entryPoint].orig].keepAlive = 0
    /\ \A d \in DstIds \ { module } : insts[d].parent >= module
    /\ \E o \in DOMAIN rets : o < module /\ rets[o] # {}

\* Where the module of the link before starts: it is the last IRModuleInst
\* before the module of this link.
FirstModule ==
    LET before == { k \in 1 .. module - 1 : insts[k].op = "Module" }
    IN  CHOOSE k \in before : \A l \in before : l <= k

\* What a type, operand, child or parent of an instruction of the module
\* that starts at `mod' refers to, whatever the addresses of the module:
\* the place of an instruction of that module in it, or else the value
\* itself (null, a builder constant, an instruction of another module).
Place(v, mod, size) ==
    IF v >= mod /\ v < mod + size THEN << "own", v - mod + 1 >>
    ELSE << "other", v >>

\* The structure of an instruction of the module that starts at `mod'.
Structure(inst, mod, size) ==
    [ op |-> inst.op,
      type |-> Place(inst.type, mod, size),
      args |-> [ k \in DOMAIN inst.args |-> Place(inst.args[k], mod, size) ],
      kids |-> [ k \in DOMAIN inst.kids |-> Place(inst.kids[k], mod, size) ],
      parent |-> Place(inst.parent, mod, size),
      link |-> inst.link, export |-> inst.export, targets |-> inst.targets,
      keepAlive |-> inst.keepAlive,
      bindExistentialSlots |-> inst.bindExistentialSlots,
      layout |-> inst.layout ]

\* The structure of a LinkedIR whose module starts at `mod': the
\* instructions of the module in their order, and the entry point.
StructureOf(linked, mod) ==
    LET size == Len(linked.module) IN
    [ module |-> [ k \in DOMAIN linked.module |->
                       Structure(linked.module[k], mod, size) ],
      entryPoint |-> Place(linked.entryPoint, mod, size) ]

RECURSIVE RegisteredIn(_, _)
RegisteredIn(modules, name) ==
    IF modules = << >> THEN << >>
    ELSE SelectSeq(GetGlobalInsts(insts, Head(modules)),
                   LAMBDA gv : insts[gv].link = name)
         \o RegisteredIn(Tail(modules), name)

RegistrationOrder(name) == RegisteredIn(<< progModule >> \o deps, name)

\* The candidates of a list that no candidate of the list ranks above.
TopRanked(cands) ==
    { c \in Range(cands) : \A d \in Range(cands) : ~RanksAbove(d, c) }

\* C15: the candidate chosen from a candidate list is, among the candidates
\* that tie at the top of the ranking, the one that was registered first.
TiesKeepFirstSeen ==
    \A k \in Selections :
        LET order == RegistrationOrder(insts[stack[k].o].link)
            top == TopRanked(order)
        IN  \A n \in DOMAIN order :
                (order[n] \in top /\ \A m \in 1 .. n - 1 : order[m] \notin top)
                    => stack[k].o = order[n]

\* C16: once the symbol table is built, the candidate list of every name
\* holds the candidates of the name in registration order.
CandidateListsInRegistrationOrder ==
    Built => \A name \in DOMAIN built : built[name] = RegistrationOrder(name)

\* The global instructions of the program module and of its dependencies.
LoadedGlobals ==
    UNION { Range(GetGlobalInsts(insts, m)) : m \in Range(<< progModule >> \o deps) }

\* The places of the instruction gv in the symbol table `syms'.
PlacesOf(syms, gv) ==
    { p \in (DOMAIN syms) \X (1 .. Len(insts)) :
        p[2] \in DOMAIN syms[p[1]] /\ syms[p[1]][p[2]] = gv }

\* C17: once the symbol table is built, a global instruction of the loaded
\* modules is in the table exactly when it has a linkage decoration, and
\* then at exactly one place, in the candidate list of its mangled name;
\* the table holds nothing else, and none of its candidate lists is empty.
TableHoldsLinkedGlobals ==
    Built =>
        /\ \A gv \in LoadedGlobals :
              IF HasLinkage(insts, gv)
              THEN /\ Cardinality(PlacesOf(built, gv)) = 1
                   /\ \A p \in PlacesOf(built, gv) : p[1] = insts[gv].link
              ELSE PlacesOf(built, gv) = {}
        /\ \A name \in DOMAIN built :
              /\ built[name] # << >>
              /\ Range(built[name]) \subseteq LoadedGlobals

\* The symbol table is built from two modules that hold a name with two
\* candidates and a global instruction without linkage decoration.
TableBuiltFromTwoModules ==
    /\ Built
    /\ deps # << >>
    /\ \E name \in DOMAIN built : Len(built[name]) >= 2
    /\ \E gv \in LoadedGlobals : ~HasLinkage(insts, gv)

\* The phase of linkIR: 1 collecting symbols, 2 cloning and specializing
\* (the witness tables and the entry point), 3 finalizing (the sweeps of
\* the bind instructions and the layouts of the tagged union types).
PhaseAt(pc) ==
    IF pc = "start" THEN 1
    ELSE IF pc \in { "witness", "entry" } THEN 2
    ELSE 3

Finalizing == status = "running" /\ PhaseAt(stack[1].pc) = 3

\* The step at hand reads the symbol table: the lookup of the entry point,
\* of a referenced global value or of a tagged union type.
SymbolLookup ==
    \/ At("specializeIRForEntryPoint") /\ Top.pc = "start"
    \/ /\ At("cloneGlobalValueWithLinkage")
       /\ insts[Top.o].parent # module
       /\ findClonedValue(envs, curEnv, Top.o) = 0
       /\ HasLinkage(insts, Top.o)
    \/ /\ At("linkIR")
       /\ Top.pc = "taggedUnions"
       /\ Top.i < Len(entryPointLayout.taggedUnionTypeLayouts)

\* C18: linkIR goes through its phases in order and never back; the symbol
\* table changes only while symbols are collected, before anything is
\* cloned; and no step of the finalizing phase reads the symbol table.
PhasesInOrder ==
    [][/\ (status = "running" /\ status' = "running") =>
             PhaseAt(stack'[1].pc) >= PhaseAt(stack[1].pc)
       /\ symbols' # symbols =>
             (PhaseAt(stack[1].pc) = 1 /\ DstIds = { module })
       /\ ~(Finalizing /\ SymbolLookup)]_vars

\* The parameters of the function fn: the instructions with the op Param
\* that its first block starts with.
ParamsOf(fn) ==
    IF insts[fn].kids = << >> THEN << >>
    ELSE LET firstBlock == Head(insts[fn].kids)
             leading == { n \in DOMAIN insts[firstBlock].kids :
                            \A m \in 1 .. n :
                                insts[insts[firstBlock].kids[m]].op = "Param" }
         IN  [ n \in 1 .. Cardinality(leading) |-> insts[firstBlock].kids[n] ]

\* The layout of the i-th field of the parameter struct of the entry point
\* layout, moved by the offset of the layout of the parameters.
FieldLayout(i) ==
    [ kind |-> "var",
      field |-> entryPointLayout.fields[i].field,
      offset |-> entryPointLayout.fields[i].offset
                    + entryPointLayout.parametersLayout.offset ]

\* The candidate of the entry point's name that is cloned.
EntryCandidate == BestCandidate(insts, target, built[entryName])

\* C19: after a link that is done, the entry point carries the entry point
\* layout and, for every i, the i-th parameter of its first block carries
\* the layout of the i-th field of the parameter struct; the link of an
\* entry point with more parameters than the struct has fields is never
\* done: it ends with the error "too many parameters".
ParametersCarryLayouts ==
    /\ status = "done" =>
          /\ insts[entryPoint].layout = entryPointLayout.layout
          /\ Len(ParamsOf(entryPoint)) <= Len(entryPointLayout.fields)
          /\ \A i \in DOMAIN ParamsOf(entryPoint) :
                insts[ParamsOf(entryPoint)[i]].layout = FieldLayout(i)
    /\ (/\ Built
        /\ entryName \in DOMAIN built
        /\ Len(ParamsOf(EntryCandidate)) > Len(entryPointLayout.fields)) =>
          /\ status \in { "running", "too many parameters" }
          /\ status = "running" => ENABLED Next
    /\ status = "too many parameters" =>
          Len(ParamsOf(EntryCandidate)) > Len(entryPointLayout.fields)

\* A link is done whose entry point has two parameters, laid out at an
\* offset, and a parameter in its second block.
TwoParametersLaidOut ==
    /\ status = "done"
    /\ Len(ParamsOf(entryPoint)) = 2
    /\ entryPointLayout.parametersLayout.offset > 0
    /\ insts[ParamsOf(entryPoint)[2]].layout.field = 2
    /\ insts[ParamsOf(entryPoint)[2]].type # 0

\* The bind instructions among the global instructions of the program
\* module.
ProgramBinds ==
    { b \in Range(GetGlobalInsts(insts, progModule)) : insts[b].op \in BindOps }

\* The operand k of the clone c of the bind instruction b is the clone the
\* environment holds for the operand of b, an instruction of the destination
\* module, and every clone of an instruction that uses the same operand
\* uses that clone.
BindOperandResolved(b, c, k) ==
    /\ insts[c].args[k] = findClonedValue(envs, curEnv, insts[b].args[k])
    /\ insts[c].args[k] \in DstIds
    /\ \A d \in DstIds : \A j \in DOMAIN insts[d].args :
          (insts[d].orig # 0 /\ insts[insts[d].orig].args[j] = insts[b].args[k])
              => insts[d].args[j] = insts[c].args[k]

\* C20: after a link that is done, every bind instruction among the global
\* instructions of the program module has exactly one clone, a global
\* instruction of the destination module, whether or not the entry point
\* reaches it, and the operands of the clone are the clones that the code
\* of the entry point uses for them.
BindInstructionsCloned ==
    status = "done" =>
        \A b \in ProgramBinds :
            /\ Cardinality(ClonesOf(b)) = 1
            /\ \A c \in ClonesOf(b) :
                  /\ insts[c].op = insts[b].op
                  /\ insts[c].parent = module
                  /\ Len(insts[c].args) = Len(insts[b].args)
                  /\ \A k \in DOMAIN insts[b].args : BindOperandResolved(b, c, k)

\* A link over two modules is done whose entry point uses an operand of
\* the two bind instructions of the program module.
BindsSwept ==
    /\ status = "done"
    /\ deps # << >>
    /\ Cardinality(ProgramBinds) = 2
    /\ \A b \in ProgramBinds : ClonesOf(b) # {}
    /\ \E d \in DstIds :
          /\ insts[d].op = "Inst"
          /\ \E b \in ProgramBinds :
                Range(insts[insts[d].orig].args) \cap Range(insts[b].args) # {}

(***************************************************************************)
(* C21: a program of one function                                          *)
(***************************************************************************)
\* The only loaded module defines one global, a function with the entry
\* point's name and no target tag, and no instruction refers to anything
\* outside of that function; the entry point layout has a field for each
\* of its parameters.
SingleFunctionProgram ==
    /\ deps = << >>
    /\ Len(GetGlobalInsts(insts, progModule)) = 1
    /\ LET F == GetGlobalInsts(insts, progModule)[1]
       IN  /\ insts[F].op = "Func"
           /\ insts[F].link = entryName
           /\ insts[F].targets = << >>
           /\ Len(ParamsOf(F)) <= Len(entryPointLayout.fields)
    /\ \A k \in SrcIds :
          /\ insts[k].type # progModule
          /\ progModule \notin Range(insts[k].args)

\* C21: linking a program that consists of the one function F#1, with F#1
\* as the entry point, succeeds with a destination module whose only global
\* instruction, and only function, is the clone of F#1.
SingleFunctionLinked ==
    SingleFunctionProgram =>
        /\ status \in { "running", "done" }
        /\ Cardinality({ d \in DstIds : insts[d].op = "Func" }) <= 1
        /\ status = "done" =>
              /\ GetGlobalInsts(insts, module) = << entryPoint >>
              /\ insts[entryPoint].op = "Func"
              /\ insts[entryPoint].orig = GetGlobalInsts(insts, progModule)[1]
              /\ { d \in DstIds : insts[d].op = "Func" } = { entryPoint }

\* The function F#1 with two blocks and a call of itself has been linked.
SingleFunctionCloned ==
    /\ SingleFunctionProgram
    /\ entryName = "F#1"
    /\ status = "done"
    /\ Len(insts[entryPoint].kids) = 2
    /\ \E d \in DstIds : entryPoint \in Range(insts[d].args)

(***************************************************************************)
(* C22: two link operations at once                                        *)
(***************************************************************************)
\* C22: of two link operations that run on threads of their own for one
\* program, neither writes state the other reads or writes, obtaining the
\* IR module of the program included, and each returns what it returns
\* when it runs alone.
ConcurrentLinksIndependent ==
    /\ \A t \in Threads, u \in Threads :
          t # u => ~(threads[t].wrote /\ (threads[u].read \/ threads[u].wrote))
    /\ \A t \in Threads :
          threads[t].pc = "done" =>
              threads[t].result = LinkResult(threads[t].entry, ProgramSymbols)

(***************************************************************************)
(* C23: a name that is in the destination module already                   *)
(***************************************************************************)
\* The instructions of the destination module that carry the linkage name
\* of the instruction o.
Carrying(o) == { d \in DstIds : insts[d].link = insts[o].link }

\* cloneValue, maybeCloneValue or cloneGlobalValue is entered for an
\* instruction whose linkage name an instruction of the destination module
\* carries.
AskedForExistingName ==
    /\ stack # << >>
    /\ \/ Top.fn \in { "cloneValue", "maybeCloneValue" } /\ Top.pc = "start"
       \/ Top.fn = "cloneGlobalValueWithLinkage"
    /\ Top.o # 0
    /\ HasLinkage(insts, Top.o)
    /\ Carrying(Top.o) # { }

\* The function on top of the stack hands the request on to the function fn.
HandsOnTo(fn) ==
    /\ Len(stack') >= Len(stack)
    /\ Last(stack').fn = fn
    /\ Last(stack').o = Top.o
    /\ insts' = insts

\* C23: a request to clone an instruction whose linkage name is carried by
\* an instruction of the destination module returns that instruction and
\* adds no instruction: the function asked returns it, or hands the request
\* on to the function that does.
ExistingNameIsReused ==
    [][ AskedForExistingName =>
          \/ /\ stack' = Front(stack)
             /\ ret' \in Carrying(Top.o)
             /\ insts' = insts
          \/ Top.fn = "cloneValue" /\ HandsOnTo("maybeCloneValue")
          \/ Top.fn = "maybeCloneValue" /\ HandsOnTo("cloneGlobalValueWithLinkage") ]_vars

(***************************************************************************)
(* C24: the environment frames of generic bodies                           *)
(***************************************************************************)
\* The frames from the frame e out to the root.
RECURSIVE EnvChain(_)
EnvChain(e) == IF e = 0 THEN << >> ELSE << e >> \o EnvChain(envs[e].parent)

\* The generics whose bodies are being cloned.
GenericBodiesOpen ==
    { n \in DOMAIN stack :
        /\ stack[n].fn = "cloneGlobalValueWithCodeCommon"
        /\ insts[stack[n].o].op = "Generic" }

\* The blocks of the generics of the source modules and their instructions.
RECURSIVE InGeneric(_)
InGeneric(k) ==
    /\ insts[k].parent # 0
    /\ \/ insts[insts[k].parent].op = "Generic"
       \/ InGeneric(insts[k].parent)

\* C24: the environment has the root frame and one frame more for every
\* generic whose body is being cloned, each pushed onto the frame that was
\* current; when the link is done no memo entry of an instruction of the
\* body of a generic is visible any more.
GenericBodiesHaveOwnFrames ==
    /\ curEnv # 0
    /\ Last(EnvChain(curEnv)) = 1
    /\ Len(EnvChain(curEnv)) = 1 + Cardinality(GenericBodiesOpen)
    /\ status = "done" =>
          \A k \in SrcIds : InGeneric(k) => findClonedValue(envs, curEnv, k) = 0

(***************************************************************************)
(* C25: lookups in a chain of frames                                       *)
(***************************************************************************)
\* The places in the chain of the current frame, innermost first, whose
\* frames have an entry for the instruction o.
FramesWithEntry(o) ==
    { n \in DOMAIN EnvChain(curEnv) :
        o \in DOMAIN envs[EnvChain(curEnv)[n]].clonedValues }

\* C25: findClonedValue returns the clone recorded in the innermost frame
\* of the chain that has an entry for the instruction, returns null (not
\* yet cloned) exactly when no frame up to the root has one, and changes
\* no frame.
InnermostEntryFound ==
    [][ At("findClonedValue") =>
          /\ envs' = envs
          /\ curEnv' = curEnv
          /\ (ret' = 0) = (FramesWithEntry(Top.o) = { })
          /\ \A n \in FramesWithEntry(Top.o) :
                (\A m \in FramesWithEntry(Top.o) : n <= m) =>
                    ret' = envs[EnvChain(curEnv)[n]].clonedValues[Top.o] ]_vars

\* A lookup has returned the entry of the innermost of three frames, which
\* shadows another entry of the root frame.
InnerEntryShadowsOuter ==
    /\ stack = << >>
    /\ Len(envs) = 3
    /\ curEnv = 3
    /\ \A e \in DOMAIN envs : 2 \notin DOMAIN envs[e].clonedValues
    /\ 1 \in DOMAIN envs[1].clonedValues
    /\ 1 \in DOMAIN envs[3].clonedValues
    /\ envs[1].clonedValues[1] = 4
    /\ envs[3].clonedValues[1] = 3
    /\ ret = 3

(***************************************************************************)
(* C26: the target level of a generic                                      *)
(***************************************************************************)
\* The generic g has a first block that ends in a return of the value r.
Returns(g, r) ==
    /\ insts[g].op = "Generic"
    /\ insts[g].kids # << >>
    /\ LET firstBlock == insts[g].kids[1] IN
       /\ insts[firstBlock].kids # << >>
       /\ insts[Last(insts[firstBlock].kids)].op = "ReturnVal"
       /\ insts[Last(insts[firstBlock].kids)].args = << r >>

\* The values reached from v through at most n returns of generics.
RECURSIVE ReturnedWithin(_, _)
ReturnedWithin(v, n) ==
    IF n = 0 THEN { v }
    ELSE LET nearer == ReturnedWithin(v, n - 1) IN
         nearer \cup { r \in SrcIds : \E g \in nearer : Returns(g, r) }

\* The value whose target decorations rank the candidate v: the last of the
\* values v returns through nested generics, v itself when it returns none.
RankedValue(v) ==
    LET generics == { g \in SrcIds : insts[g].op = "Generic" } IN
    CHOOSE r \in ReturnedWithin(v, Cardinality(generics)) :
        \A r2 \in SrcIds : ~Returns(r, r2)

\* C26: among generic candidates no candidate's ranked value has a higher
\* target level than the ranked value of the chosen candidate; the target
\* decorations of the generics themselves do not count.
GenericsRankedByReturnedValue ==
    \A k \in Selections :
        \A c \in Range(stack[k].ov.sym) :
            insts[c].op = "Generic" =>
                TargetLevel(RankedValue(c)) <= TargetLevel(RankedValue(stack[k].o))

\* A generic is chosen over the first candidate for the function its nested
\* generic returns, although its own decoration names another target and
\* the decoration of the first candidate names the active target.
NestedGenericChosen ==
    \E k \in Selections :
        LET o == stack[k].o
            c == Head(stack[k].ov.sym)
        IN  /\ o # c
            /\ insts[o].op = "Generic" /\ insts[c].op = "Generic"
            /\ insts[RankedValue(o)].op = "Func"
            /\ insts[insts[insts[RankedValue(o)].parent].parent].link = NoName
            /\ TargetLevel(o) = 0 /\ TargetLevel(c) = 2
            /\ TargetLevel(RankedValue(o)) = 2
            /\ TargetLevel(RankedValue(c)) = 1

(***************************************************************************)
(* C27: the blocks of a value with code                                    *)
(***************************************************************************)
\* The clones whose original owns blocks and whose blocks have been made.
ClonesWithBlocks ==
    { c \in DstIds :
        /\ insts[c].orig # 0
        /\ insts[c].kids # << >>
        /\ insts[insts[c].kids[1]].op = "Block" }

\* The place of the instruction k among the children of its parent.
PlaceOf(h, k) == CHOOSE n \in DOMAIN h[h[k].parent].kids : h[h[k].parent].kids[n] = k

\* C27: a clone that has blocks has as many as its original, the i-th a
\* clone of the i-th block of the original and the one the memo holds for
\* it; the instructions of a cloned block are clones of instructions of
\* its original in their order; an operand that is a block of the original
\* is cloned as the one clone of that block.
BlocksClonedFirst ==
    \A c \in ClonesWithBlocks :
        LET o == insts[c].orig IN
        /\ Len(insts[c].kids) = Len(insts[o].kids)
        /\ \A i \in DOMAIN insts[c].kids :
              LET cb == insts[c].kids[i]
                  ob == insts[o].kids[i]
              IN  /\ insts[cb].op = "Block"
                  /\ insts[cb].orig = ob
                  /\ findClonedValue(envs, curEnv, ob) = cb
                  /\ ClonesOf(ob) = { cb }
                  /\ \A n \in DOMAIN insts[cb].kids :
                        /\ insts[insts[cb].kids[n]].orig \in Range(insts[ob].kids)
                        /\ \A m \in 1 .. n - 1 :
                              PlaceOf(insts, insts[insts[cb].kids[m]].orig)
                                  < PlaceOf(insts, insts[insts[cb].kids[n]].orig)
                  /\ \A d \in Range(insts[cb].kids) :
                        \A n \in DOMAIN insts[d].args :
                            LET a == insts[insts[d].orig].args[n] IN
                            (insts[a].op = "Block" /\ insts[d].args[n] # 0) =>
                                insts[d].args[n] = findClonedValue(envs, curEnv, a)

(***************************************************************************)
(* C28: the entry point that linkIR returns                                *)
(***************************************************************************)
\* The value is a function, or the instantiation of a generic whose first
\* block returns a function.
ReducesToFunction(v) ==
    \/ insts[v].op = "Func"
    \/ /\ insts[v].op = "Specialize"
       /\ \E r \in SrcIds : Returns(insts[v].args[1], r) /\ insts[r].op = "Func"

\* C28: the entry point linkIR returns is a function of the destination
\* module with exactly one keep-alive decoration and the layout of the
\* entry point, also when the entry point is the instantiation of a
\* generic; when the clone of the entry point does not reduce to a function
\* the link ends with the error "expected entry point to be a function".
EntryPointIsKeptAliveFunction ==
    /\ status = "done" =>
          /\ ReducesToFunction(EntryCandidate)
          /\ entryPoint \in DstIds
          /\ insts[entryPoint].op = "Func"
          /\ insts[entryPoint].keepAlive = 1
          /\ insts[entryPoint].layout = entryPointLayout.layout
    /\ status = "expected entry point to be a function" =>
          ~ReducesToFunction(EntryCandidate)

\* The instantiation of a generic was linked as the entry point: the
\* function the generic returns has a keep-alive decoration already.
GenericEntryPointLinked ==
    /\ status = "done"
    /\ insts[EntryCandidate].op = "Specialize"
    /\ \E r \in SrcIds :
          /\ Returns(insts[EntryCandidate].args[1], r)
          /\ insts[r].keepAlive = 1
    /\ insts[entryPoint].parent = module
    /\ insts[entryPoint].keepAlive = 1

(***************************************************************************)
(* C29: the layouts of the global parameters                               *)
(***************************************************************************)
\* The places of the entries of a scope that have the mangled name.
EntriesOf(entries, name) ==
    { n \in DOMAIN entries : name # NoName /\ entries[n].name = name }

\* The layout of the first entry of a scope that has the mangled name.
FirstLayout(entries, name) ==
    entries[CHOOSE n \in EntriesOf(entries, name) :
                \A m \in EntriesOf(entries, name) : n <= m].layout

\* C29: after a link that is done a cloned global parameter has a layout
\* exactly when a scope has an entry for its mangled name; the layout is
\* the one of the first entry of the global scope, and without such an
\* entry the one of the first entry of the scope of the entry point group,
\* made absolute.
GlobalParamsCarryFirstLayout ==
    status = "done" =>
        \A d \in DstIds :
            insts[d].op = "GlobalParam" =>
                LET name == insts[insts[d].orig].link
                    inGlobal == EntriesOf(programLayout.globalScope, name) # { }
                    inGroup == EntriesOf(programLayout.groupScope, name) # { }
                IN  /\ (insts[d].layout # NoLayout) = (inGlobal \/ inGroup)
                    /\ inGlobal =>
                          insts[d].layout = FirstLayout(programLayout.globalScope, name)
                    /\ (~inGlobal /\ inGroup) =>
                          insts[d].layout.offset =
                              FirstLayout(programLayout.groupScope, name).offset
                              + programLayout.parametersLayout.offset
                          /\ insts[d].layout.field =
                                FirstLayout(programLayout.groupScope, name).field

\* A global parameter with an entry in both scopes, and two in the global
\* scope, has been cloned with the layout of the first entry of the global
\* scope; another has the layout of its entry of the group, and the one
\* without a name has none.
GlobalScopeLayoutWins ==
    /\ status = "done"
    /\ Len(programLayout.globalScope) = 2
    /\ programLayout.parametersLayout.offset = 8
    /\ \E d \in DstIds :
          /\ insts[d].op = "GlobalParam"
          /\ insts[d].link = "P"
          /\ EntriesOf(programLayout.groupScope, "P") # { }
          /\ insts[d].layout = Layout("var", 1, 1)
    /\ \E d \in DstIds :
          /\ insts[d].op = "GlobalParam"
          /\ insts[d].link = "Q"
          /\ insts[d].layout = Layout("var", 6, 14)
    /\ \E d \in DstIds :
          /\ insts[d].op = "GlobalParam"
          /\ insts[d].link = NoName
          /\ insts[d].layout = NoLayout

(***************************************************************************)
(* C30: the witness tables                                                 *)
(***************************************************************************)
\* The mangled names whose first candidate is a witness table.
WitnessTableNames ==
    { name \in DOMAIN built : insts[Head(built[name])].op = "WitnessTable" }

\* The clones of the candidates of the name in the destination module.
WitnessTableClones(name) ==
    { d \in DstIds :
        /\ insts[d].link = name
        /\ insts[d].parent = module
        /\ insts[d].orig \in Range(built[name]) }

\* C30: from the lookup of the entry point on, and after a link that is
\* done, every mangled name whose first candidate is a witness table has a
\* clone in the destination module, whether or not the entry point
\* reaches it.
WitnessTablesAlwaysCloned ==
    (status = "done" \/ \E n \in DOMAIN stack :
                            stack[n].fn = "specializeIRForEntryPoint") =>
        \A name \in WitnessTableNames : WitnessTableClones(name) # { }

\* A link is done whose destination module has the clone of a witness
\* table that no instruction of the module refers to.
UnreachedWitnessTableCloned ==
    /\ status = "done"
    /\ \E name \in WitnessTableNames :
          \E d \in WitnessTableClones(name) :
              \A k \in DstIds :
                  insts[k].type # d /\ d \notin Range(insts[k].args)

====
